---- MODULE Spec2Model ----
(***************************************************************************)
(* A model of the tile request pipeline of cyto-viewer:                    *)
(*   - TileCache           (internal/tiler/cache.go)                       *)
(*   - GPUTileProcessor    (internal/tiler/gpu_processor.go)               *)
(*   - scanner.Interface   (internal/tiler/encoders.go, package scanner)   *)
(*                                                                         *)
(* Go pointers are modelled by a heap: a *TileResponse is an address into  *)
(* structs, a []byte is an address into slices (its backing array).  Two   *)
(* references alias exactly when they hold the same address.  Objects no   *)
(* reference reaches are dropped, as Go's garbage collector does.          *)
(***************************************************************************)
EXTENDS Integers, Sequences, FiniteSets, TLC

VARIABLES
    maxSize,        \* TileCache.maxSize
    currentSize,    \* TileCache.currentSize
    items,          \* TileCache.items: the keys of the map
    lru,            \* TileCache.lru: sequence of cacheEntry, front first
    hits,           \* TileCache.hits
    misses,         \* TileCache.misses
    structs,        \* heap of TileResponse structs: address -> fields
    slices,         \* heap of byte arrays: address -> sequence of bytes
    held,           \* *TileResponse references the callers hold
    fromGet,        \* history: the held references that a lookup returned
    used,           \* history: keys by last Get hit or Set, latest first
    last,           \* history: the operation that just completed
    pc,             \* where each ProcessTile call stands
    treq,           \* ProcessTile: req
    resp,           \* ProcessTile: the *TileResponse it returns (cached / response)
    perr,           \* ProcessTile: the error it returns
    buf,            \* ProcessTile: output, a pool buffer not yet put back
    poolIdle,       \* GPUTileProcessor.bufferPool: the buffers it holds
    bpc,            \* where the ProcessBatch call stands
    requests,       \* ProcessBatch: requests
    responses,      \* ProcessBatch: responses, one slot per request
    requestChan,    \* ProcessBatch: requestChan, the indices queued
    chanClosed,     \* ProcessBatch: requestChan has been closed
    errChan,        \* ProcessBatch: errChan
    sent,           \* ProcessBatch: how many requests the send loop has queued
    wst,            \* each worker goroutine: ready, busy or exited
    widx,           \* each worker: work.idx
    bret,           \* what ProcessBatch returned
    outcome,        \* history: how ProcessTile ended for each item
    took,           \* history: the workers that dequeued each item
    wrote,          \* history: the workers that wrote each slot
    connected,      \* scanner.Interface.connected
    conn,           \* scanner.Interface.conn: nil, open or closed
    mu,             \* scanner.Interface.mu: the call that holds it
    scanpc,         \* where the StartScan call stands
    wanted,         \* StartScan: len(req.Layers)
    layers,         \* StartScan: len(result.Layers)
    dataSize,       \* receiveLayerData: dataSize
    totalRead,      \* receiveLayerData: totalRead
    cancelled,      \* StartScan: ctx is done
    sret,           \* what StartScan returned
    scans,          \* history: the StartScan calls made
    rxFailed,       \* history: a scan was aborted by a failed read
    link,           \* the network under conn: up or down
    nwrites,        \* history: the calls of conn.Write
    lastw,          \* history: the last call of conn.Write: for which operation, and whether it succeeded
    dreply,         \* history: what the device answers the last command with
    rx,             \* the bytes that have arrived on conn and are not yet read
    qpc,            \* where NewInterface stands
    nret,           \* the error NewInterface returns
    layerData,      \* scanner.Interface.layerData: the layer indices stored
    rlength,        \* readResponse: length
    response,       \* readResponse: the bytes of response read so far
    rex,            \* history: the exchange readResponse is reading for
    stpc,           \* where the GetStatus call stands
    stret,          \* what GetStatus returned
    raw,            \* receiveLayerData: the bytes of RawData read so far
    hdr,            \* receiveLayerData: layerData.Layer
    sex,            \* history: the exchange StartScan is reading for
    ops,            \* history: the calls of GetStatus, SetFocusLayer and Close
    misread,        \* history: a Read took bytes that answer another exchange
    opret,          \* what SetFocusLayer or Close returned
    fcmd,           \* sendCommand: cmd
    fdata,          \* sendCommand: data
    fbytes,         \* sendCommand: cmdPacket as written
    fdec,           \* what the receiving side decodes from cmdPacket
    arg,            \* the input a function is applied to
    res,            \* what the function returned
    applied,        \* the function has been applied
    activeSessions, \* auth.Manager.activeSessions: token -> Session
    now,            \* time.Now(), in units of the token expiry's granularity
    loggedOut,      \* history: the tokens a logout request was made with
    nreq,           \* history: the protected requests made so far
    authRet         \* history: the token of the last protected request, and
                    \* whether the middleware let it through

cacheVars == <<maxSize, currentSize, items, lru, hits, misses>>
heapVars  == <<structs, slices, held, fromGet>>
pipeVars  == <<pc, treq, resp, perr, buf, poolIdle>>
batchVars == <<bpc, requests, responses, requestChan, chanClosed, errChan, sent,
               wst, widx, bret, outcome, took, wrote>>
authVars  == <<activeSessions, now, loggedOut, nreq, authRet>>
funcVars  == <<arg, res, applied, authVars>>
frameVars == <<fcmd, fdata, fbytes, fdec, funcVars>>
connVars  == <<connected, conn, link>>
wireVars  == <<nwrites, lastw, dreply, rx>>
respVars  == <<rlength, response, rex>>
statVars  == <<stpc, stret>>
scanLocals == <<scanpc, wanted, layers, dataSize, totalRead, raw, hdr, cancelled, sret, sex>>
histVars  == <<scans, ops, rxFailed, misread, opret>>
clientVars == <<connVars, wireVars, mu, qpc, nret, layerData, respVars, statVars,
                scanLocals, histVars>>
scanVars  == <<clientVars, frameVars>>
tilerVars == <<cacheVars, heapVars, used, last, pipeVars, batchVars>>
vars      == <<tilerVars, scanVars>>

\* ------------------------------------------------------------------ bounds

\* Largest capacity a cache is constructed with.
MaxCap == 5
\* Longest Data a caller hands to Set.
MaxLen == 2
\* How many lookups (hits + misses) a run performs.
MaxGets == 2
\* Longest Data of the callers that write through their references.
MaxAliasLen == 1

\* Longest output of an encoder.
MaxEncLen == 1
\* How many ProcessTile calls a run starts.
MaxCalls == 2

Keys      == {"A", "B", "C"}
AliasKeys == {"A", "B"}
TileKeys  == {"A", "B"}
Formats   == {"webp", "jpeg"}
Bytes     == {0, 1}
Nil       == <<"nil", 0>>

\* Longest batch handed to ProcessBatch.
MaxBatch == 3

\* The goroutines that run ProcessTile: request handlers, and the workers of
\* ProcessBatch (workers := 4).
Direct  == {"d1", "d2"}
Workers == {"w1", "w2", "w3", "w4"}
Callers == Direct \cup Workers
WorkerNo(w) == CASE w = "w1" -> 1 [] w = "w2" -> 2 [] w = "w3" -> 3 [] w = "w4" -> 4

\* What handleGetTile puts in place of an absent quality, and the longest batch
\* handleBatchTiles accepts.
DefaultQuality == 85
MaxBatchSize == 100

NoReq == [key |-> "", Format |-> "", Quality |-> 0]

\* ------------------------------------------------------------------ helpers

Min(S) == CHOOSE x \in S : \A y \in S : x <= y

\* A fresh address.  Addresses are pairs <<tag, n>>: the tag names what the
\* object was built for (a cache key, or "copy" for what Get hands out), n is
\* the smallest number that keeps it apart from every live address.
Fresh(live, tag) ==
    <<tag, Min({n \in 1..(Cardinality(live) + 1) : <<tag, n>> \notin live})>>

\* The position of key k in a sequence of entries.
IndexOf(l, k) == CHOOSE i \in 1..Len(l) : l[i].key = k

\* The position of key k in a sequence of keys; 0 when absent.
PosIn(s, k) == IF \E i \in 1..Len(s) : s[i] = k
               THEN CHOOSE i \in 1..Len(s) : s[i] = k
               ELSE 0

Without(s, k) == SelectSeq(s, LAMBDA x : x # k)

Touch(s, k) == <<k>> \o Without(s, k)

\* The recorded sizes of the entries of l whose key is in K, summed.
RECURSIVE SizeOfKeys(_, _)
SizeOfKeys(l, K) ==
    IF l = <<>> THEN 0
    ELSE (IF Head(l).key \in K THEN Head(l).size ELSE 0) + SizeOfKeys(Tail(l), K)

\* ------------------------------------------------------------------ TileCache

\* list.MoveToFront
MoveToFront(l, i) == <<l[i]>> \o SubSeq(l, 1, i - 1) \o SubSeq(l, i + 1, Len(l))

\* The cache as one value, for the operators below.
Cache == [maxSize |-> maxSize, currentSize |-> currentSize,
          items |-> items, lru |-> lru]

\* evictOldest: remove the back of the list.
evictOldestAlt(c) ==
    IF Len(c.lru) = 0 THEN c
    ELSE LET entry == c.lru[1]
         IN [c EXCEPT !.lru = Tail(c.lru),
                      !.items = c.items \ {entry.key},
                      !.currentSize = c.currentSize - entry.size]
evictOldest(c) ==
    IF Len(c.lru) = 0 THEN c
    ELSE LET entry == c.lru[Len(c.lru)]
         IN [c EXCEPT !.lru = SubSeq(c.lru, 1, Len(c.lru) - 1),
                      !.items = c.items \ {entry.key},
                      !.currentSize = c.currentSize - entry.size]

\* As evictUntilFits, but one entry at most is evicted.
evictUntilFitsAlt(c, size) ==
    IF c.currentSize + size > c.maxSize /\ Len(c.lru) > 0
    THEN evictOldest(c)
    ELSE c

\* The eviction loop of Set.
RECURSIVE evictUntilFits(_, _)
evictUntilFits(c, size) ==
    IF c.currentSize + size > c.maxSize /\ Len(c.lru) > 0
    THEN evictUntilFits(evictOldest(c), size)
    ELSE c

\* As setExisting, but the new size is added without taking the old one off.
setExistingAlt(c, key, value, size) ==
    LET i     == IndexOf(c.lru, key)
        upd   == [c.lru EXCEPT ![i] = [key |-> key, value |-> value, size |-> size]]
    IN [c EXCEPT !.currentSize = c.currentSize + size,
                 !.lru = MoveToFront(upd, i)]

\* Set on a key that is present: replace in place, move to front.
setExisting(c, key, value, size) ==
    LET i     == IndexOf(c.lru, key)
        entry == c.lru[i]
        upd   == [c.lru EXCEPT ![i] = [key |-> key, value |-> value, size |-> size]]
    IN [c EXCEPT !.currentSize = (c.currentSize - entry.size) + size,
                 !.lru = MoveToFront(upd, i)]

\* Set on a new key: evict, then push to the front.
setNew(c, key, value, size) ==
    LET e == evictUntilFits(c, size)
    IN [e EXCEPT !.lru = <<[key |-> key, value |-> value, size |-> size]>> \o e.lru,
                 !.items = e.items \cup {key},
                 !.currentSize = e.currentSize + size]

\* TileCache.Set, its result as a cache value; value is a *TileResponse.
cacheSet(c, key, value, size) ==
    IF key \in c.items
    THEN setExisting(c, key, value, size)
    ELSE setNew(c, key, value, size)

\* As lruAfterGet, without the promotion.
lruAfterGetAlt(l, key) == l

\* TileCache.Get on a hit: the list after promotion.
lruAfterGet(l, key) == MoveToFront(l, IndexOf(l, key))

\* The bytes the cache stores for a resident key.
EntryOf(key)    == lru[IndexOf(lru, key)]
EntryData(key)  == slices[structs[EntryOf(key).value].Data]

\* ------------------------------------------------------------------ heap

\* References the cache holds.
EntryStructs(l) == {l[i].value : i \in 1..Len(l)}

\* Keep what the roots reach; drop the rest.
Collect(st, sl, roots) ==
    /\ structs' = [a \in roots |-> st[a]]
    /\ slices'  = [a \in {st[r].Data : r \in roots} |-> sl[a]]

\* The copy a Get hit returns: a new struct over a new backing array.
\* Yields <<structs, slices, address of the copy>>.
copyOutAlt(st, sl, src) ==
    LET ns == Fresh(DOMAIN st, "copy")
    IN <<(ns :> [st[src] EXCEPT !.Data = st[src].Data]) @@ st, sl, ns>>
copyOut(st, sl, src) ==
    LET nd == Fresh(DOMAIN sl, "copy")
        ns == Fresh(DOMAIN st, "copy")
    IN <<(ns :> [st[src] EXCEPT !.Data = nd]) @@ st,
         (nd :> sl[st[src].Data]) @@ sl,
         ns>>

\* What stays live across a Set of key: what the callers hold and what the
\* other entries hold (the entry of key itself is about to lose its value).
LiveAcrossSet(key) ==
    held \cup {lru[i].value : i \in {j \in 1..Len(lru) : lru[j].key # key}}

\* A caller builds a TileResponse over new bytes.
\* Yields <<structs, slices, address>>.
newResponse(st, sl, live, data, ctype, key) ==
    LET nd == Fresh({st[a].Data : a \in live}, key)
        ns == Fresh(live, key)
    IN <<(ns :> [Data |-> nd, ContentType |-> ctype, CacheKey |-> key]) @@ st,
         (nd :> data) @@ sl,
         ns>>

\* ------------------------------------------------------------------ cache calls

\* Every *TileResponse some reference still reaches: the cache's entries, what
\* the callers hold, the locals of the running ProcessTile calls, and the slots
\* of the running batch.
RootsWith(l, h, r, s) ==
    (EntryStructs(l) \cup h \cup {r[c] : c \in DOMAIN r}
        \cup {s[i] : i \in 1..Len(s)}) \ {Nil}

Roots(l, h, r) == RootsWith(l, h, r, responses)

\* copyOut for a resident key; nothing to copy for an absent one.
CopyFor(key) ==
    IF key \in items
    THEN copyOut(structs, slices, EntryOf(key).value)
    ELSE <<structs, slices, Nil>>

\* TileCache.Get(key), the cache's own fields; cp is CopyFor(key).
TileCacheGet(key, cp) ==
    IF key \notin items
    THEN /\ misses' = misses + 1
         /\ UNCHANGED <<maxSize, currentSize, items, lru, hits, used>>
         /\ last' = [op |-> "Get", key |-> key, hit |-> FALSE, ret |-> Nil]
    ELSE /\ hits' = hits + 1
         /\ lru' = lruAfterGet(lru, key)
         /\ UNCHANGED <<maxSize, currentSize, items, misses>>
         /\ used' = Touch(used, key)
         /\ last' = [op |-> "Get", key |-> key, hit |-> TRUE, ret |-> cp[3]]

\* TileCache.Set(key, value), the cache's own fields; size is len(value.Data).
TileCacheSet(key, value, size) ==
    LET c2 == cacheSet(Cache, key, value, size)
    IN /\ currentSize' = c2.currentSize
       /\ items' = c2.items
       /\ lru' = c2.lru
       /\ UNCHANGED <<maxSize, hits, misses>>
       /\ used' = Touch(used, key)
       /\ last' = [op |-> "Set", key |-> key, hit |-> key \in items, ret |-> value]

\* A caller calls Get(key) and keeps the result or not.
Get(key, keep) ==
    LET cp == CopyFor(key)
    IN /\ hits + misses < MaxGets
       /\ TileCacheGet(key, cp)
       /\ IF key \in items /\ keep /\ held = {}
          THEN /\ held' = {cp[3]}
               /\ fromGet' = fromGet \cup {cp[3]}
          ELSE UNCHANGED <<held, fromGet>>
       /\ Collect(cp[1], cp[2], Roots(lru', held', resp))
       /\ UNCHANGED <<pipeVars, batchVars, scanVars>>

\* A caller builds a response over data and calls Set with it; it may keep
\* its pointer to the response afterwards.
SetFresh(key, data, keep) ==
    LET nr == newResponse(structs, slices, LiveAcrossSet(key), data, "image/webp", key)
    IN /\ TileCacheSet(key, nr[3], Len(data))
       /\ held' = IF keep /\ held = {} THEN {nr[3]} ELSE held
       /\ UNCHANGED fromGet
       /\ Collect(nr[1], nr[2], Roots(lru', held', resp))
       /\ UNCHANGED <<pipeVars, batchVars, scanVars>>

\* A caller calls Set with a response it already holds.
SetHeld(key, h) ==
    /\ h \in held
    /\ TileCacheSet(key, h, Len(slices[structs[h].Data]))
    /\ fromGet' = fromGet \ {h}
    /\ UNCHANGED held
    /\ Collect(structs, slices, Roots(lru', held, resp))
    /\ UNCHANGED <<pipeVars, batchVars, scanVars>>

\* As Clear, but the resident bytes are left as they were.
ClearAlt ==
    /\ items' = {}
    /\ lru' = <<>>
    /\ UNCHANGED <<maxSize, currentSize, hits, misses, held, fromGet, used>>
    /\ Collect(structs, slices, Roots(lru', held, resp))
    /\ last' = [op |-> "Clear", key |-> "", hit |-> FALSE, ret |-> Nil]
    /\ UNCHANGED <<pipeVars, batchVars, scanVars>>

\* TileCache.Clear
Clear ==
    /\ items' = {}
    /\ lru' = <<>>
    /\ currentSize' = 0
    /\ UNCHANGED <<maxSize, hits, misses, held, fromGet, used>>
    /\ Collect(structs, slices, Roots(lru', held, resp))
    /\ last' = [op |-> "Clear", key |-> "", hit |-> FALSE, ret |-> Nil]
    /\ UNCHANGED <<pipeVars, batchVars, scanVars>>

\* A caller writes one byte of the Data of a response it holds.
MutateByte(h, i, b) ==
    /\ h \in held
    /\ i \in 1..Len(slices[structs[h].Data])
    /\ slices[structs[h].Data][i] # b
    /\ slices' = [slices EXCEPT ![structs[h].Data][i] = b]
    /\ UNCHANGED <<cacheVars, structs, held, fromGet, used>>
    /\ last' = [op |-> "Mutate", key |-> "", hit |-> FALSE, ret |-> h]
    /\ UNCHANGED <<pipeVars, batchVars, scanVars>>

\* A caller lets go of a response.
Drop(h) ==
    /\ h \in held
    /\ held' = held \ {h}
    /\ fromGet' = fromGet \ {h}
    /\ UNCHANGED <<cacheVars, used>>
    /\ Collect(structs, slices, Roots(lru, held', resp))
    /\ last' = [op |-> "Drop", key |-> "", hit |-> FALSE, ret |-> h]
    /\ UNCHANGED <<pipeVars, batchVars, scanVars>>

\* ------------------------------------------------------------------ ProcessTile

\* The cache key of a request (the request carries its identity as one value).
cacheKeyOf(req) == req.key

\* encodeTile's switch on req.Format, and the content type each encoder names.
contentTypeOf(format) ==
    CASE format = "webp" -> "image/webp"
      [] format = "avif" -> "image/webp"
      [] OTHER           -> "image/jpeg"

Step == [op |-> "step", key |-> "", hit |-> FALSE, ret |-> Nil]

\* A request handler calls ProcessTile(ctx, req).
Call(c, req) ==
    /\ pc[c] = "idle"
    /\ hits + misses + Cardinality({d \in DOMAIN pc : pc[d] = "lookup"}) < MaxCalls
    /\ pc' = [pc EXCEPT ![c] = "lookup"]
    /\ treq' = [treq EXCEPT ![c] = req]
    /\ last' = Step
    /\ UNCHANGED <<cacheVars, heapVars, used, resp, perr, buf, poolIdle>>
    /\ UNCHANGED <<batchVars, scanVars>>

\* As PT_Lookup, but a hit goes on to the compute stage with the copy in hand.
PT_LookupAlt(c) ==
    LET key == cacheKeyOf(treq[c])
        cp  == CopyFor(key)
    IN /\ pc[c] = "lookup"
       /\ TileCacheGet(key, cp)
       /\ pc' = [pc EXCEPT ![c] = "compute"]
       /\ resp' = [resp EXCEPT ![c] = cp[3]]
       /\ Collect(cp[1], cp[2], Roots(lru', held, resp'))
       /\ UNCHANGED <<held, fromGet, treq, perr, buf, poolIdle>>
       /\ UNCHANGED <<batchVars, scanVars>>

\* ProcessTile, lines 97-102: the cache lookup; a hit returns the copy.
PT_Lookup(c) ==
    LET key == cacheKeyOf(treq[c])
        cp  == CopyFor(key)
    IN /\ pc[c] = "lookup"
       /\ TileCacheGet(key, cp)
       /\ IF key \in items
          THEN /\ pc' = [pc EXCEPT ![c] = "done"]
               /\ resp' = [resp EXCEPT ![c] = cp[3]]
          ELSE /\ pc' = [pc EXCEPT ![c] = "compute"]
               /\ UNCHANGED resp
       /\ Collect(cp[1], cp[2], Roots(lru', held, resp'))
       /\ UNCHANGED <<held, fromGet, treq, perr, buf, poolIdle>>
       /\ UNCHANGED <<batchVars, scanVars>>

\* The steps of lines 104-145 that can fail, in order: loadRawTile, cudaMalloc
\* of the input, cudaMalloc of the output, cudaMemcpyAsync, cudaStreamSynchronize.
ComputeFailures == {"load", "mallocIn", "mallocOut", "copyToGPU", "sync"}

\* As PT_Compute, but a failure leaves an empty response under the key.
PT_ComputeAlt(c) ==
    /\ pc[c] = "compute"
    /\ \E how \in ComputeFailures \cup {"ok"} :
        IF how = "ok"
        THEN /\ pc' = [pc EXCEPT ![c] = "checkout"]
             /\ last' = Step
             /\ UNCHANGED <<cacheVars, heapVars, used, perr>>
        ELSE LET key == cacheKeyOf(treq[c])
                 nr  == newResponse(structs, slices, DOMAIN structs, <<>>, "", key)
             IN /\ pc' = [pc EXCEPT ![c] = "failed"]
                /\ perr' = [perr EXCEPT ![c] = how]
                /\ TileCacheSet(key, nr[3], 0)
                /\ Collect(nr[1], nr[2], Roots(lru', held, resp))
                /\ UNCHANGED <<held, fromGet>>
    /\ UNCHANGED <<treq, resp, buf, poolIdle>>
    /\ UNCHANGED <<batchVars, scanVars>>

\* ProcessTile, lines 104-145: raw load, device allocation, copy in, kernel,
\* synchronize.  Storage and device are outside the program: each step either
\* succeeds or fails, and the first failure returns the error.
PT_Compute(c) ==
    /\ pc[c] = "compute"
    /\ \E how \in ComputeFailures \cup {"ok"} :
        IF how = "ok"
        THEN /\ pc' = [pc EXCEPT ![c] = "checkout"]
             /\ UNCHANGED perr
        ELSE /\ pc' = [pc EXCEPT ![c] = "failed"]
             /\ perr' = [perr EXCEPT ![c] = how]
    /\ last' = Step
    /\ UNCHANGED <<cacheVars, heapVars, used, treq, resp, buf, poolIdle>>
    /\ UNCHANGED <<batchVars, scanVars>>

\* sync.Pool.Get: hands out a pooled buffer when it finds one, and builds a
\* new one with New otherwise; it never waits.
poolGet(idle) == IF idle > 0 THEN {idle - 1, idle} ELSE {idle}

\* ProcessTile, line 148: output := p.bufferPool.Get()
PT_Checkout(c) ==
    /\ pc[c] = "checkout"
    /\ poolIdle' \in poolGet(poolIdle)
    /\ buf' = [buf EXCEPT ![c] = TRUE]
    /\ pc' = [pc EXCEPT ![c] = "copyback"]
    /\ last' = Step
    /\ UNCHANGED <<cacheVars, heapVars, used, treq, resp, perr>>
    /\ UNCHANGED <<batchVars, scanVars>>

\* ProcessTile, lines 149-167: copy back from the device, encode, build the
\* response.  A failed copy returns at once; a failed encode puts the buffer
\* back first.
PT_CopyEncode(c) ==
    /\ pc[c] = "copyback"
    /\ \/ /\ pc' = [pc EXCEPT ![c] = "failed"]
          /\ perr' = [perr EXCEPT ![c] = "copyFromGPU"]
          /\ UNCHANGED <<heapVars, resp, buf, poolIdle>>
       \/ /\ pc' = [pc EXCEPT ![c] = "failed"]
          /\ perr' = [perr EXCEPT ![c] = "encode"]
          /\ poolIdle' = poolIdle + 1
          /\ buf' = [buf EXCEPT ![c] = FALSE]
          /\ UNCHANGED <<heapVars, resp>>
       \/ \E n \in 1..MaxEncLen :
            LET key == cacheKeyOf(treq[c])
                nr  == newResponse(structs, slices, DOMAIN structs, [i \in 1..n |-> 0],
                                   contentTypeOf(treq[c].Format), key)
            IN /\ pc' = [pc EXCEPT ![c] = "store"]
               /\ resp' = [resp EXCEPT ![c] = nr[3]]
               /\ structs' = nr[1]
               /\ slices' = nr[2]
               /\ UNCHANGED <<held, fromGet, perr, buf, poolIdle>>
    /\ last' = Step
    /\ UNCHANGED <<cacheVars, used, treq>>
    /\ UNCHANGED <<batchVars, scanVars>>

\* ProcessTile, line 170: p.tileCache.Set(cacheKey, response)
PT_Store(c) ==
    /\ pc[c] = "store"
    /\ TileCacheSet(cacheKeyOf(treq[c]), resp[c], Len(slices[structs[resp[c]].Data]))
    /\ pc' = [pc EXCEPT ![c] = "release"]
    /\ Collect(structs, slices, Roots(lru', held, resp))
    /\ UNCHANGED <<held, fromGet, treq, resp, perr, buf, poolIdle>>
    /\ UNCHANGED <<batchVars, scanVars>>

\* ProcessTile, lines 172-175: put the buffer back, return the response.
PT_Release(c) ==
    /\ pc[c] = "release"
    /\ poolIdle' = poolIdle + 1
    /\ buf' = [buf EXCEPT ![c] = FALSE]
    /\ pc' = [pc EXCEPT ![c] = "done"]
    /\ last' = Step
    /\ UNCHANGED <<cacheVars, heapVars, used, treq, resp, perr>>
    /\ UNCHANGED <<batchVars, scanVars>>

\* The handler is done with what ProcessTile returned; a buffer that was
\* never put back is garbage from here on.
Finish(c) ==
    /\ pc[c] \in {"done", "failed"}
    /\ pc' = [pc EXCEPT ![c] = "idle"]
    /\ treq' = [treq EXCEPT ![c] = NoReq]
    /\ resp' = [resp EXCEPT ![c] = Nil]
    /\ perr' = [perr EXCEPT ![c] = "none"]
    /\ buf' = [buf EXCEPT ![c] = FALSE]
    /\ Collect(structs, slices, Roots(lru, held, resp'))
    /\ last' = Step
    /\ UNCHANGED <<cacheVars, held, fromGet, used, poolIdle>>
    /\ UNCHANGED <<batchVars, scanVars>>

\* The caller writes one byte of the Data of the response ProcessTile returned.
CallerMutate(c, i, b) ==
    /\ pc[c] = "done"
    /\ i \in 1..Len(slices[structs[resp[c]].Data])
    /\ slices[structs[resp[c]].Data][i] # b
    /\ slices' = [slices EXCEPT ![structs[resp[c]].Data][i] = b]
    /\ last' = [op |-> "Mutate", key |-> cacheKeyOf(treq[c]), hit |-> FALSE, ret |-> resp[c]]
    /\ UNCHANGED <<cacheVars, structs, held, fromGet, used, pipeVars, batchVars, scanVars>>

\* sync.Pool lets go of a pooled buffer at a garbage collection.
PoolDrop ==
    /\ poolIdle > 0
    /\ poolIdle' = poolIdle - 1
    /\ last' = Step
    /\ UNCHANGED <<cacheVars, heapVars, used, pc, treq, resp, perr, buf, batchVars, scanVars>>

\* ------------------------------------------------------------------ ProcessBatch

NoRet == [slots |-> <<>>, err |-> "none"]

\* What a worker's ProcessTile call leaves behind once the worker has taken
\* its result.
ClearCall(w) ==
    /\ pc' = [pc EXCEPT ![w] = "idle"]
    /\ treq' = [treq EXCEPT ![w] = NoReq]
    /\ resp' = [resp EXCEPT ![w] = Nil]
    /\ perr' = [perr EXCEPT ![w] = "none"]
    /\ buf' = [buf EXCEPT ![w] = FALSE]

\* ProcessBatch, lines 215-242: the slots, the channels, the workers.
PB_Begin(reqs) ==
    /\ bpc = "idle"
    /\ bpc' = "sending"
    /\ requests' = reqs
    /\ responses' = [i \in 1..Len(reqs) |-> Nil]
    /\ requestChan' = <<>>
    /\ chanClosed' = FALSE
    /\ errChan' = <<>>
    /\ sent' = 0
    /\ wst' = [w \in Workers |-> "ready"]
    /\ outcome' = [i \in 1..Len(reqs) |-> "none"]
    /\ took' = [i \in 1..Len(reqs) |-> <<>>]
    /\ wrote' = [i \in 1..Len(reqs) |-> <<>>]
    /\ last' = Step
    /\ UNCHANGED <<cacheVars, heapVars, used, pipeVars, widx, bret>>
    /\ UNCHANGED scanVars

\* ProcessBatch is called while the lookups it can make stay within MaxBatch.
PB_Start(reqs) ==
    /\ hits + misses + Len(reqs) <= MaxBatch
    /\ PB_Begin(reqs)

\* ProcessBatch, lines 245-250: queue the next request; the send waits while
\* the channel holds len(requests) items.
PB_Send ==
    /\ bpc = "sending"
    /\ sent < Len(requests)
    /\ Len(requestChan) < Len(requests)
    /\ requestChan' = Append(requestChan, sent + 1)
    /\ sent' = sent + 1
    /\ last' = Step
    /\ UNCHANGED <<cacheVars, heapVars, used, pipeVars, bpc, requests, responses,
                   chanClosed, errChan, wst, widx, bret, outcome, took, wrote>>
    /\ UNCHANGED scanVars

\* As PB_Close, but the channel is left open.
PB_CloseAlt ==
    /\ bpc = "sending"
    /\ sent = Len(requests)
    /\ bpc' = "waiting"
    /\ last' = Step
    /\ UNCHANGED <<cacheVars, heapVars, used, pipeVars, requests, responses, chanClosed,
                   requestChan, errChan, sent, wst, widx, bret, outcome, took, wrote>>
    /\ UNCHANGED scanVars

\* ProcessBatch, lines 251-254: close(requestChan), then wg.Wait().
PB_Close ==
    /\ bpc = "sending"
    /\ sent = Len(requests)
    /\ chanClosed' = TRUE
    /\ bpc' = "waiting"
    /\ last' = Step
    /\ UNCHANGED <<cacheVars, heapVars, used, pipeVars, requests, responses,
                   requestChan, errChan, sent, wst, widx, bret, outcome, took, wrote>>
    /\ UNCHANGED scanVars

\* A worker, line 233: for work := range requestChan.  It takes the next index
\* and calls ProcessTile, or leaves the loop when the channel is closed and
\* drained.  The workers run the same closure and differ in nothing but their
\* names, so of the workers waiting at the channel the first by name stands for
\* whichever the scheduler wakes.
W_Receive(w) ==
    /\ wst[w] = "ready"
    /\ \A v \in Workers : wst[v] = "ready" => WorkerNo(w) <= WorkerNo(v)
    /\ IF requestChan # <<>>
       THEN LET idx == Head(requestChan)
            IN /\ requestChan' = Tail(requestChan)
               /\ widx' = [widx EXCEPT ![w] = idx]
               /\ wst' = [wst EXCEPT ![w] = "busy"]
               /\ pc' = [pc EXCEPT ![w] = "lookup"]
               /\ treq' = [treq EXCEPT ![w] = requests[idx]]
               /\ took' = [took EXCEPT ![idx] = Append(@, w)]
       ELSE /\ chanClosed
            /\ wst' = [wst EXCEPT ![w] = "exited"]
            /\ UNCHANGED <<requestChan, widx, pc, treq, took>>
    /\ last' = Step
    /\ UNCHANGED <<cacheVars, heapVars, used, resp, perr, buf, poolIdle, bpc, requests,
                   responses, chanClosed, errChan, sent, bret, outcome, wrote>>
    /\ UNCHANGED scanVars

\* A worker, line 239: responses[work.idx] = resp, and round the loop again.
W_Result(w) ==
    /\ wst[w] = "busy"
    /\ pc[w] = "done"
    /\ responses' = [responses EXCEPT ![widx[w]] = resp[w]]
    /\ wrote' = [wrote EXCEPT ![widx[w]] = Append(@, w)]
    /\ outcome' = [outcome EXCEPT ![widx[w]] = "ok"]
    /\ wst' = [wst EXCEPT ![w] = "ready"]
    /\ ClearCall(w)
    /\ Collect(structs, slices, RootsWith(lru, held, resp', responses'))
    /\ last' = Step
    /\ UNCHANGED <<cacheVars, held, fromGet, used, poolIdle, bpc, requests, requestChan,
                   chanClosed, errChan, sent, widx, bret, took>>
    /\ UNCHANGED scanVars

\* A worker, lines 235-238: errChan <- err; return.  The worker is gone.
W_Error(w) ==
    /\ wst[w] = "busy"
    /\ pc[w] = "failed"
    /\ Len(errChan) < Len(requests)
    /\ errChan' = Append(errChan, perr[w])
    /\ outcome' = [outcome EXCEPT ![widx[w]] = "err"]
    /\ wst' = [wst EXCEPT ![w] = "exited"]
    /\ ClearCall(w)
    /\ last' = Step
    /\ UNCHANGED <<cacheVars, heapVars, used, poolIdle, bpc, requests, responses,
                   requestChan, chanClosed, sent, widx, bret, took, wrote>>
    /\ UNCHANGED scanVars

\* ProcessBatch, lines 254-262: every worker is gone; the first error queued,
\* if any, is returned in place of the slots.
PB_Return ==
    /\ bpc = "waiting"
    /\ \A w \in Workers : wst[w] = "exited"
    /\ bpc' = "returned"
    /\ bret' = IF errChan # <<>>
               THEN [slots |-> <<>>, err |-> Head(errChan)]
               ELSE [slots |-> responses, err |-> "none"]
    /\ last' = Step
    /\ UNCHANGED <<cacheVars, heapVars, used, pipeVars, requests, responses, requestChan,
                   chanClosed, errChan, sent, wst, widx, outcome, took, wrote>>
    /\ UNCHANGED scanVars

\* The handler is done with what ProcessBatch returned.
PB_Done ==
    /\ bpc = "returned"
    /\ bpc' = "idle"
    /\ requests' = <<>>
    /\ responses' = <<>>
    /\ requestChan' = <<>>
    /\ chanClosed' = FALSE
    /\ errChan' = <<>>
    /\ sent' = 0
    /\ wst' = [w \in Workers |-> "off"]
    /\ bret' = NoRet
    /\ outcome' = <<>>
    /\ took' = <<>>
    /\ wrote' = <<>>
    /\ Collect(structs, slices, RootsWith(lru, held, resp, <<>>))
    /\ last' = Step
    /\ UNCHANGED <<cacheVars, held, fromGet, used, pipeVars, widx>>
    /\ UNCHANGED scanVars

\* ------------------------------------------------------------------ command framing

\* Protocol commands (encoders.go:110-120).
CMD_CONNECT    == 1
CMD_DISCONNECT == 2
CMD_SCAN       == 3
CMD_GET_LAYERS == 4
CMD_CALIBRATE  == 5
CMD_STATUS     == 6
CMD_SET_FOCUS  == 7
CMD_GET_IMAGE  == 8
Opcodes == {CMD_CONNECT, CMD_DISCONNECT, CMD_SCAN, CMD_GET_LAYERS, CMD_CALIBRATE,
            CMD_STATUS, CMD_SET_FOCUS, CMD_GET_IMAGE}

\* Longest payload framed, and the byte values payloads are drawn from.
MaxPayload == 3
PayloadBytes == {0, 1, 255}

RECURSIVE SeqsUpTo(_, _)
SeqsUpTo(S, n) ==
    IF n = 0 THEN {<<>>}
    ELSE LET shorter == SeqsUpTo(S, n - 1)
         IN shorter \cup {Append(q, x) : q \in {r \in shorter : Len(r) = n - 1}, x \in S}

\* binary.BigEndian.PutUint32 of uint32(n), for n below 2^31: the conversion
\* leaves such an n as it is.
PutUint32(n) ==
    <<(n \div 16777216) % 256, (n \div 65536) % 256, (n \div 256) % 256, n % 256>>

\* binary.BigEndian.Uint32: the first four bytes of b.
Uint32(b) == b[1] * 16777216 + b[2] * 65536 + b[3] * 256 + b[4]

\* As cmdPacket, but the length is written least significant byte first.
cmdPacketAlt(cmd, data) ==
    LET u == Len(data)
    IN <<cmd>> \o <<u % 256, (u \div 256) % 256, (u \div 65536) % 256, (u \div 16777216) % 256>>
              \o data

\* sendCommand, lines 343-352: the packet handed to conn.Write.  A nil data
\* is the empty sequence: nothing is appended for it.
cmdPacket(cmd, data) == <<cmd>> \o PutUint32(Len(data)) \o data

\* The receiving side: the opcode, the length, and as many bytes of payload.
\* A packet too short for its header or its declared length decodes to nothing.
NoCommand == [op |-> 0, payload |-> <<>>]
decodePacket(b) ==
    IF Len(b) < 5 THEN NoCommand
    ELSE LET n == Uint32(SubSeq(b, 2, 5))
         IN IF Len(b) < 5 + n THEN NoCommand
            ELSE [op |-> b[1], payload |-> SubSeq(b, 6, 5 + n)]

\* sendCommand frames fcmd and fdata.
Encode ==
    /\ fbytes = <<>>
    /\ fbytes' = cmdPacket(fcmd, fdata)
    /\ UNCHANGED <<tilerVars, clientVars, fcmd, fdata, fdec, funcVars>>

\* The receiving side decodes what was written.
Decode ==
    /\ fbytes # <<>>
    /\ fdec = NoCommand
    /\ fdec' = decodePacket(fbytes)
    /\ UNCHANGED <<tilerVars, clientVars, fcmd, fdata, fbytes, funcVars>>

InitFrame(cmds, datas) ==
    /\ fcmd \in cmds
    /\ fdata \in datas
    /\ fbytes = <<>>
    /\ fdec = NoCommand

\* auth.NewManager: no session; no request has been made.
NoAuth == [token |-> <<>>, ok |-> FALSE]
InitAuth ==
    /\ activeSessions = <<>>
    /\ now = 0
    /\ loggedOut = {}
    /\ nreq = 0
    /\ authRet = NoAuth

\* No function is under way with the inputs args.
InitFunc(args) ==
    /\ arg \in args
    /\ res = <<>>
    /\ applied = FALSE
    /\ InitAuth

\* ------------------------------------------------------------------ scanner.Interface

\* Most StartScan calls on one client, most layers in one request, most
\* bytes of one layer, the layers in the device's table, most calls of
\* GetStatus, SetFocusLayer and Close together, the most bytes a Read falls
\* short of what it could bring, and the most bytes of an answer the device
\* holds back for good.
MaxScans  == 1
MaxLayers == 2
MaxData   == 2
MaxInfo   == 1
MaxOps    == 2
MaxShort  == 1
MaxStall  == 1

\* Field widths of the protocol: the response length prefix (line 360), the
\* layer header (line 259), a layer record (line 203), and the bytes GetStatus
\* reads of a status response (line 336: response[9:] as a uint32).
LenPrefix == 4
HeaderLen == 32
RecordLen == 20
StatusLen == 13

Least(a, b) == IF a < b THEN a ELSE b

NoStatus == [ok |-> FALSE, err |-> "none"]
NoOp == [op |-> "", err |-> "none"]
NoWrite == [who |-> "", ok |-> FALSE]

Zeros(n) == [i \in 1..n |-> 0]

\* What a Read of n bytes into a zeroed buffer of want bytes leaves in it.
Padded(b, want) == b \o Zeros(want - Len(b))

\* The bytes on the connection carry the number of the exchange they answer.
Tagged(b, ex) == [i \in 1..Len(b) |-> [b |-> b[i], ex |-> ex]]
BytesOf(q) == [i \in 1..Len(q) |-> q[i].b]

RECURSIVE Concat(_)
Concat(ss) == IF ss = <<>> THEN <<>> ELSE Head(ss) \o Concat(Tail(ss))

\* StartScan, lines 218-230: cmdData for a request of n layers, numbered from 1,
\* at the origin.
ScanPayload(n) ==
    PutUint32(0) \o PutUint32(0) \o PutUint32(0) \o PutUint32(0) \o PutUint32(n)
        \o Concat([i \in 1..n |-> PutUint32(i)])

\* The layer header as receiveLayerData reads it (lines 264-274): the layer at
\* byte 0, the data size at byte 28.
LayerHeader(layer, size) == PutUint32(layer) \o Zeros(HeaderLen - 8) \o PutUint32(size)

\* The bytes of a layer: the device fills a layer with its number.
LayerBytes(layer, size) == [i \in 1..size |-> layer]

\* A layer record as queryLayerInfo reads it (lines 195-203).
LayerRecord(index) ==
    PutUint32(index) \o PutUint32(1) \o PutUint32(1) \o PutUint32(0) \o PutUint32(1)

\* A response as readResponse reads it (lines 360-375): length, then payload.
Response(payload) == PutUint32(Len(payload)) \o payload

\* The device.  What it may send in answer to a command: the layers of a scan,
\* each of some size; a status of full length or cut short; the layer table,
\* or one announcing a record more than it holds.  The other commands get no
\* answer.
DeviceReplies(pkt) ==
    LET c == decodePacket(pkt)
    IN CASE c.op = CMD_SCAN ->
              LET n == Uint32(SubSeq(c.payload, 17, 20))
              IN {Concat([i \in 1..n |-> LayerHeader(i, sz[i]) \o LayerBytes(i, sz[i])]) :
                      sz \in [1..n -> 0..MaxData]}
         [] c.op = CMD_STATUS ->
              {Response(Zeros(StatusLen)), Response(Zeros(StatusLen - 8))}
         [] c.op = CMD_GET_LAYERS ->
              {Response(PutUint32(k) \o Concat([i \in 1..MaxInfo |-> LayerRecord(i)])) :
                  k \in {MaxInfo, MaxInfo + 1}}
         [] OTHER -> {<<>>}

\* sendCommand, lines 342-356: one Write of the packet.  It fails on a closed
\* or broken connection; else the packet reaches the device, whose answer
\* arrives, whole or but for its last bytes, which then never come.  who names the calling operation.
sendCommand(who, cmd, data) ==
    LET pkt == cmdPacket(cmd, data)
        ok  == conn = "open" /\ link = "up"
    IN /\ nwrites' = nwrites + 1
       /\ lastw' = [who |-> who, ok |-> ok]
       /\ IF ok
          THEN \E reply \in DeviceReplies(pkt) : \E stall \in 0..Least(MaxStall, Len(reply)) :
                  /\ dreply' = reply
                  /\ rx' = rx \o Tagged(SubSeq(reply, 1, Len(reply) - stall), nwrites + 1)
          ELSE /\ dreply' = <<>>
               /\ UNCHANGED rx

WriteOk == conn = "open" /\ link = "up"

\* The connection breaks: from now on Read and Write fail, and the bytes that
\* had arrived are lost.
LinkDown ==
    /\ conn = "open"
    /\ link = "up"
    /\ link' = "down"
    /\ rx' = <<>>

\* conn.Read returns bytes when some have arrived, and waits while none have.
\* It brings what has arrived and fits the buffer, or up to MaxShort bytes less.
ReadSizes(want) ==
    LET most == Least(want, Len(rx))
    IN {n \in 1..most : n >= most - MaxShort}
CanRead == conn = "open" /\ link = "up" /\ rx # <<>>
ReadFails == conn # "open" \/ link = "down"

\* s.mu.Lock(): the call goes on when no other call holds the lock.
Lock == mu = "free"

\* Whether a Read took a byte that answers another exchange than the reader's.
Foreign(taken, ex) == \E i \in 1..Len(taken) : taken[i].ex # ex

\* NewInterface, line 128, connect, lines 141-158: the lock, and the dial, which
\* fails (the protocol is not tcp, or DialTimeout returns an error) or gives
\* the connection.
N_Dial ==
    /\ qpc = "new"
    /\ Lock
    /\ \/ /\ \E e \in {"protocol", "dial"} : nret' = e
          /\ qpc' = "failed"
          /\ UNCHANGED <<conn, link, mu>>
       \/ /\ conn' = "open"
          /\ link' = "up"
          /\ qpc' = "dialled"
          /\ mu' = "new"
          /\ UNCHANGED nret
    /\ UNCHANGED <<tilerVars, frameVars, connected, wireVars, layerData, respVars,
                   statVars, scanLocals, histVars>>

\* connect, lines 160-167: CONNECT is sent; when the Write fails the
\* connection is closed and the error returned, else connected is set.
N_Hello ==
    /\ qpc = "dialled"
    /\ sendCommand("connect", CMD_CONNECT, <<>>)
    /\ mu' = "free"
    /\ IF WriteOk
       THEN /\ connected' = TRUE
            /\ qpc' = "connected"
            /\ UNCHANGED <<conn, nret>>
       ELSE /\ conn' = "closed"
            /\ qpc' = "failed"
            /\ nret' = "write"
            /\ UNCHANGED connected
    /\ UNCHANGED <<tilerVars, frameVars, link, layerData, respVars, statVars,
                   scanLocals, histVars>>

\* queryLayerInfo, lines 170-181: the lock, the connected check, GET_LAYERS.
Q_Send ==
    /\ qpc = "connected"
    /\ Lock
    /\ IF ~connected
       THEN /\ qpc' = "failed"
            /\ nret' = "not connected"
            /\ UNCHANGED <<nwrites, lastw, dreply, rx, mu, respVars>>
       ELSE /\ sendCommand("query", CMD_GET_LAYERS, <<>>)
            /\ IF WriteOk
               THEN /\ qpc' = "length"
                    /\ mu' = "new"
                    /\ rex' = nwrites + 1
                    /\ rlength' = 0
                    /\ response' = <<>>
                    /\ UNCHANGED nret
               ELSE /\ qpc' = "failed"
                    /\ nret' = "write"
                    /\ UNCHANGED <<mu, respVars>>
    /\ UNCHANGED <<tilerVars, frameVars, connVars, layerData, statVars,
                   scanLocals, histVars>>

\* queryLayerInfo, lines 189-206: the table is filled record by record; a
\* record that reaches past the end of the response panics (index out of
\* range), the records before it having been stored.
RecordsIn(rsp) == IF Len(rsp) < 4 THEN 0 ELSE (Len(rsp) - 4) \div RecordLen
Declared(rsp) == Uint32(rsp)
QueryPanics(rsp) == Len(rsp) < 4 \/ RecordsIn(rsp) < Declared(rsp)

\* float64(n) / 1000.0 (line 199), kept as the fraction it is.
Thousandths(n) == [num |-> n, den |-> 1000]

\* As LayerInfoAt, with Width and Height taken from each other's bytes.
LayerInfoAtAlt(rsp, i) ==
    LET offset == 4 + (i - 1) * RecordLen
        Field(k) == Uint32(SubSeq(rsp, offset + k + 1, offset + k + 4))
    IN [LayerIndex |-> Field(0),
        Width      |-> Field(8),
        Height     |-> Field(4),
        FocusDepth |-> Thousandths(Field(12)),
        TileSize   |-> Field(16)]

\* queryLayerInfo, lines 195-201: the LayerInfo read at the i-th record.
LayerInfoAt(rsp, i) ==
    LET offset == 4 + (i - 1) * RecordLen
        Field(k) == Uint32(SubSeq(rsp, offset + k + 1, offset + k + 4))
    IN [LayerIndex |-> Field(0),
        Width      |-> Field(4),
        Height     |-> Field(8),
        FocusDepth |-> Thousandths(Field(12)),
        TileSize   |-> Field(16)]

\* queryLayerInfo, lines 194-204: the map s.layerData after n rounds of the
\* loop over a map that was t; a record whose LayerIndex is there already
\* takes the place of the earlier one.
RECURSIVE StoredAfter(_, _, _)
StoredAfter(t, rsp, n) ==
    IF n = 0 THEN t
    ELSE LET before == StoredAfter(t, rsp, n - 1)
             info   == LayerInfoAt(rsp, n)
         IN [k \in DOMAIN before \cup {info.LayerIndex} |->
                IF k = info.LayerIndex THEN info ELSE before[k]]

\* The rounds the loop makes before it ends or panics.
Rounds(rsp) == IF Len(rsp) < 4 THEN 0 ELSE Least(Declared(rsp), RecordsIn(rsp))

\* The layer indices a response stores.
QueryStores(rsp) == DOMAIN StoredAfter(<<>>, rsp, Rounds(rsp))

\* GetStatus, lines 331-337: the fields are read out of the response; a
\* response shorter than they reach panics.
StatusPanics(rsp) == Len(rsp) < StatusLen

\* The call that was reading a response returns: queryLayerInfo to
\* NewInterface (lines 133-137), GetStatus to its caller.  The deferred Unlock
\* runs, on a panic too.
ResponseReturns(who, err) ==
    /\ mu' = "free"
    /\ IF who = "query"
       THEN /\ qpc' = IF err = "none" THEN "ready" ELSE "failed"
            /\ nret' = err
            /\ UNCHANGED statVars
       ELSE /\ stpc' = "done"
            /\ stret' = [ok |-> err = "none", err |-> err]
            /\ UNCHANGED <<qpc, nret>>

\* The response is complete: readResponse returns it and the caller parses it.
ResponseComplete(who, rsp) ==
    IF who = "query"
    THEN /\ layerData' = layerData \cup QueryStores(rsp)
         /\ ResponseReturns(who, IF QueryPanics(rsp) THEN "panic" ELSE "none")
    ELSE /\ UNCHANGED layerData
         /\ ResponseReturns(who, IF StatusPanics(rsp) THEN "panic" ELSE "none")

Reading(who, at) == IF who = "query" THEN qpc = at ELSE stpc = at
GoOn(who, at) ==
    /\ mu' = mu
    /\ IF who = "query" THEN qpc' = at /\ UNCHANGED <<nret, statVars>>
                        ELSE stpc' = at /\ UNCHANGED <<qpc, nret, stret>>

\* readResponse, lines 359-366: one Read into the four bytes of lengthBuf, and
\* the length taken from them, however many bytes the Read brought.
R_Length(who) ==
    /\ Reading(who, "length")
    /\ \/ /\ ReadFails
          /\ ResponseReturns(who, "read")
          /\ UNCHANGED <<rx, layerData, respVars, misread>>
       \/ /\ CanRead
          /\ \E n \in ReadSizes(LenPrefix) :
               LET taken == SubSeq(rx, 1, n)
                   length == Uint32(Padded(BytesOf(taken), LenPrefix))
               IN /\ rx' = SubSeq(rx, n + 1, Len(rx))
                  /\ misread' = (misread \/ Foreign(taken, rex))
                  /\ rlength' = length
                  /\ response' = <<>>
                  /\ UNCHANGED rex
                  /\ IF length = 0
                     THEN ResponseComplete(who, <<>>)
                     ELSE GoOn(who, "payload") /\ UNCHANGED layerData
    /\ UNCHANGED <<tilerVars, frameVars, connVars, nwrites, lastw, dreply, scanLocals, scans, ops,
                   rxFailed, opret>>

\* readResponse, lines 368-377: one round of the loop that fills response.
R_Payload(who) ==
    /\ Reading(who, "payload")
    /\ \/ /\ ReadFails
          /\ ResponseReturns(who, "read")
          /\ UNCHANGED <<rx, layerData, respVars, misread>>
       \/ /\ CanRead
          /\ \E n \in ReadSizes(rlength - Len(response)) :
               LET taken == SubSeq(rx, 1, n)
                   sofar == response \o BytesOf(taken)
               IN /\ rx' = SubSeq(rx, n + 1, Len(rx))
                  /\ misread' = (misread \/ Foreign(taken, rex))
                  /\ response' = sofar
                  /\ UNCHANGED <<rlength, rex>>
                  /\ IF Len(sofar) = rlength
                     THEN ResponseComplete(who, sofar)
                     ELSE GoOn(who, "payload") /\ UNCHANGED layerData
    /\ UNCHANGED <<tilerVars, frameVars, connVars, nwrites, lastw, dreply, scanLocals, scans, ops,
                   rxFailed, opret>>

\* GetStatus, lines 317-323: the lock and STATUS; connected is not looked at.
GetStatus ==
    /\ qpc = "ready"
    /\ stpc = "idle"
    /\ ops < MaxOps
    /\ Lock
    /\ ops' = ops + 1
    /\ sendCommand("status", CMD_STATUS, <<>>)
    /\ IF WriteOk
       THEN /\ stpc' = "length"
            /\ mu' = "status"
            /\ rex' = nwrites + 1
            /\ rlength' = 0
            /\ response' = <<>>
            /\ UNCHANGED stret
       ELSE /\ stpc' = "done"
            /\ stret' = [ok |-> FALSE, err |-> "write"]
            /\ UNCHANGED <<mu, respVars>>
    /\ UNCHANGED <<tilerVars, frameVars, connVars, qpc, nret, layerData, scanLocals,
                   scans, rxFailed, misread, opret>>

\* The caller has taken what GetStatus returned; its locals are gone.
StatusDone ==
    /\ stpc = "done"
    /\ stpc' = "idle"
    /\ stret' = NoStatus
    /\ rlength' = 0
    /\ response' = <<>>
    /\ rex' = 0
    /\ UNCHANGED <<tilerVars, frameVars, connVars, wireVars, mu, qpc, nret, layerData,
                   scanLocals, histVars>>

\* SetFocusLayer, lines 307-315: the lock and SET_FOCUS; connected is not
\* looked at, and no answer is read.
SetFocusLayer(layer) ==
    /\ qpc = "ready"
    /\ ops < MaxOps
    /\ Lock
    /\ ops' = ops + 1
    /\ sendCommand("focus", CMD_SET_FOCUS, PutUint32(layer))
    /\ opret' = [op |-> "SetFocusLayer", err |-> IF WriteOk THEN "none" ELSE "write"]
    /\ UNCHANGED <<tilerVars, frameVars, connVars, mu, qpc, nret, layerData,
                   respVars, statVars, scanLocals, scans, rxFailed, misread>>

\* As Close, but the connection is closed only when DISCONNECT was sent.
CloseAlt ==
    /\ qpc = "ready"
    /\ ops < MaxOps
    /\ Lock
    /\ ops' = ops + 1
    /\ opret' = [op |-> "Close", err |-> "none"]
    /\ IF ~connected
       THEN UNCHANGED <<connected, conn, wireVars>>
       ELSE /\ sendCommand("close", CMD_DISCONNECT, <<>>)
            /\ connected' = FALSE
            /\ conn' = IF WriteOk THEN "closed" ELSE conn
    /\ UNCHANGED <<tilerVars, frameVars, link, mu, qpc, nret, layerData, respVars,
                   statVars, scanLocals, scans, rxFailed, misread>>

\* Close, lines 380-396: under the lock; nothing to do when not connected,
\* else DISCONNECT is sent, whatever comes of it, and the connection closed.
Close ==
    /\ qpc = "ready"
    /\ ops < MaxOps
    /\ Lock
    /\ ops' = ops + 1
    /\ opret' = [op |-> "Close", err |-> "none"]
    /\ IF ~connected
       THEN UNCHANGED <<connected, conn, wireVars>>
       ELSE /\ sendCommand("close", CMD_DISCONNECT, <<>>)
            /\ connected' = FALSE
            /\ conn' = IF conn = "nil" THEN "nil" ELSE "closed"
    /\ UNCHANGED <<tilerVars, frameVars, link, mu, qpc, nret, layerData, respVars,
                   statVars, scanLocals, scans, rxFailed, misread>>

NoScan == [result |-> FALSE, layers |-> 0, err |-> "none"]

\* StartScan returns: the deferred Unlock runs.
ScanReturn(r) ==
    /\ sret' = r
    /\ scanpc' = "done"
    /\ mu' = "free"

\* receiveLayerData has returned a layer (line 251): the loop of StartScan goes
\* round, or StartScan returns the result (line 254).
LayerReceived(rec) ==
    /\ layers' = Append(layers, rec)
    /\ IF Len(layers) + 1 = wanted
       THEN ScanReturn([result |-> TRUE, layers |-> Len(layers) + 1, err |-> "none"])
       ELSE scanpc' = "header" /\ UNCHANGED <<sret, mu>>

\* As StartScan, but the scan command is sent whether connected or not.
StartScanAlt(n) ==
    /\ qpc = "ready"
    /\ scanpc = "idle"
    /\ Lock
    /\ scans < MaxScans
    /\ scans' = scans + 1
    /\ cancelled' = FALSE
    /\ wanted' = n
    /\ dataSize' = 0
    /\ totalRead' = 0
    /\ raw' = <<>>
    /\ hdr' = 0
    /\ layers' = <<>>
    /\ sendCommand("scan", CMD_SCAN, ScanPayload(n))
    /\ sex' = nwrites + 1
    /\ IF ~WriteOk
       THEN ScanReturn([result |-> FALSE, layers |-> 0, err |-> "write"])
       ELSE IF n = 0
            THEN ScanReturn([result |-> TRUE, layers |-> 0, err |-> "none"])
            ELSE /\ scanpc' = "header"
                 /\ mu' = "scan"
                 /\ sret' = NoScan
    /\ UNCHANGED <<tilerVars, frameVars, connVars, qpc, nret, layerData, respVars,
                   statVars, ops, rxFailed, misread, opret>>

\* StartScan, lines 209-245: the lock, the connected check, the SCAN command,
\* whose Write succeeds or fails, and the empty result.
StartScan(n) ==
    /\ qpc = "ready"
    /\ scanpc = "idle"
    /\ Lock
    /\ scans < MaxScans
    /\ scans' = scans + 1
    /\ cancelled' = FALSE
    /\ wanted' = n
    /\ dataSize' = 0
    /\ totalRead' = 0
    /\ raw' = <<>>
    /\ hdr' = 0
    /\ layers' = <<>>
    /\ IF ~connected
       THEN /\ ScanReturn([result |-> FALSE, layers |-> 0, err |-> "not connected"])
            /\ UNCHANGED <<nwrites, lastw, dreply, rx, sex>>
       ELSE /\ sendCommand("scan", CMD_SCAN, ScanPayload(n))
            /\ sex' = nwrites + 1
            /\ IF ~WriteOk
               THEN ScanReturn([result |-> FALSE, layers |-> 0, err |-> "write"])
               ELSE IF n = 0
                    THEN ScanReturn([result |-> TRUE, layers |-> 0, err |-> "none"])
                    ELSE /\ scanpc' = "header"
                         /\ mu' = "scan"
                         /\ sret' = NoScan
    /\ UNCHANGED <<tilerVars, frameVars, connVars, qpc, nret, layerData, respVars,
                   statVars, ops, rxFailed, misread, opret>>

\* receiveLayerData, lines 258-275: one Read into the 32 bytes of header, without
\* a look at ctx, and the fields taken from them, however many bytes the Read
\* brought; a layer of no bytes is complete at once.
SS_Header ==
    /\ scanpc = "header"
    /\ \/ /\ ReadFails
          /\ ScanReturn([result |-> FALSE, layers |-> 0, err |-> "read"])
          /\ rxFailed' = TRUE
          /\ UNCHANGED <<rx, layers, dataSize, totalRead, raw, hdr, misread>>
       \/ /\ CanRead
          /\ \E n \in ReadSizes(HeaderLen) :
               LET taken  == SubSeq(rx, 1, n)
                   header == Padded(BytesOf(taken), HeaderLen)
                   layer  == Uint32(header)
                   size   == Uint32(SubSeq(header, HeaderLen - 3, HeaderLen))
               IN /\ rx' = SubSeq(rx, n + 1, Len(rx))
                  /\ misread' = (misread \/ Foreign(taken, sex))
                  /\ hdr' = layer
                  /\ dataSize' = size
                  /\ totalRead' = 0
                  /\ raw' = <<>>
                  /\ IF size = 0
                     THEN LayerReceived([Layer |-> layer, RawData |-> <<>>])
                     ELSE scanpc' = "data" /\ UNCHANGED <<layers, sret, mu>>
          /\ UNCHANGED rxFailed
    /\ UNCHANGED <<tilerVars, frameVars, connVars, nwrites, lastw, dreply, qpc, nret, layerData,
                   respVars, statVars, wanted, cancelled, sex, scans, ops, opret>>

\* receiveLayerData, lines 279-283: the top of the data loop.  A done context
\* ends the scan; otherwise the Read of line 284 is entered.
SS_Data ==
    /\ scanpc = "data"
    /\ IF cancelled
       THEN ScanReturn([result |-> FALSE, layers |-> 0, err |-> "cancelled"])
       ELSE scanpc' = "read" /\ UNCHANGED <<sret, mu>>
    /\ UNCHANGED <<tilerVars, frameVars, connVars, wireVars, qpc, nret, layerData,
                   respVars, statVars, wanted, layers, dataSize, totalRead, raw, hdr,
                   cancelled, sex, histVars>>

\* receiveLayerData, lines 284-288: the Read into the rest of RawData returns.
SS_Read ==
    /\ scanpc = "read"
    /\ \/ /\ ReadFails
          /\ ScanReturn([result |-> FALSE, layers |-> 0, err |-> "read"])
          /\ rxFailed' = TRUE
          /\ UNCHANGED <<rx, layers, totalRead, raw, misread>>
       \/ /\ CanRead
          /\ \E n \in ReadSizes(dataSize - totalRead) :
               LET taken == SubSeq(rx, 1, n)
                   sofar == raw \o BytesOf(taken)
               IN /\ rx' = SubSeq(rx, n + 1, Len(rx))
                  /\ misread' = (misread \/ Foreign(taken, sex))
                  /\ totalRead' = totalRead + n
                  /\ raw' = sofar
                  /\ IF totalRead + n = dataSize
                     THEN LayerReceived([Layer |-> hdr, RawData |-> sofar])
                     ELSE scanpc' = "data" /\ UNCHANGED <<layers, sret, mu>>
          /\ UNCHANGED rxFailed
    /\ UNCHANGED <<tilerVars, frameVars, connVars, nwrites, lastw, dreply, qpc, nret, layerData,
                   respVars, statVars, wanted, dataSize, hdr, cancelled, sex, scans, ops,
                   opret>>

\* The caller of StartScan cancels its context while the scan runs.
Cancel ==
    /\ scanpc \in {"header", "data", "read"}
    /\ ~cancelled
    /\ cancelled' = TRUE
    /\ UNCHANGED <<tilerVars, frameVars, connVars, wireVars, mu, qpc, nret, layerData,
                   respVars, statVars, scanpc, wanted, layers, dataSize, totalRead, raw,
                   hdr, sret, sex, histVars>>

\* The caller has taken what StartScan returned; its locals are gone.
ScanDone ==
    /\ scanpc = "done"
    /\ scanpc' = "idle"
    /\ sret' = NoScan
    /\ wanted' = 0
    /\ layers' = <<>>
    /\ dataSize' = 0
    /\ totalRead' = 0
    /\ raw' = <<>>
    /\ hdr' = 0
    /\ cancelled' = FALSE
    /\ sex' = 0
    /\ UNCHANGED <<tilerVars, frameVars, connVars, wireVars, mu, qpc, nret, layerData,
                   respVars, statVars, histVars>>

\* The network, which breaks when it will.
Break ==
    /\ LinkDown
    /\ UNCHANGED <<tilerVars, frameVars, connected, conn, nwrites, lastw, dreply, mu, qpc, nret,
                   layerData, respVars, statVars, scanLocals, histVars>>

\* ------------------------------------------------------------------ specifications

\* NewTileCache(maxSizeBytes)
InitCache(caps) ==
    /\ maxSize \in caps
    /\ currentSize = 0
    /\ items = {}
    /\ lru = <<>>
    /\ hits = 0
    /\ misses = 0
    /\ structs = <<>>
    /\ slices = <<>>
    /\ held = {}
    /\ fromGet = {}
    /\ used = <<>>
    /\ last = [op |-> "New", key |-> "", hit |-> FALSE, ret |-> Nil]

\* NewGPUTileProcessor: an empty pool, no call running.
\* NewInterface has allocated the client (lines 123-126) and is about to
\* connect.
InitScan ==
    /\ connected = FALSE
    /\ conn = "nil"
    /\ link = "down"
    /\ mu = "free"
    /\ nwrites = 0
    /\ lastw = NoWrite
    /\ dreply = <<>>
    /\ rx = <<>>
    /\ qpc = "new"
    /\ nret = "none"
    /\ layerData = {}
    /\ rlength = 0
    /\ response = <<>>
    /\ rex = 0
    /\ stpc = "idle"
    /\ stret = NoStatus
    /\ scanpc = "idle"
    /\ wanted = 0
    /\ layers = <<>>
    /\ dataSize = 0
    /\ totalRead = 0
    /\ raw = <<>>
    /\ hdr = 0
    /\ cancelled = FALSE
    /\ sret = NoScan
    /\ sex = 0
    /\ scans = 0
    /\ ops = 0
    /\ rxFailed = FALSE
    /\ misread = FALSE
    /\ opret = NoOp

InitProc ==
    /\ pc = [c \in Callers |-> "idle"]
    /\ treq = [c \in Callers |-> NoReq]
    /\ resp = [c \in Callers |-> Nil]
    /\ perr = [c \in Callers |-> "none"]
    /\ buf = [c \in Callers |-> FALSE]
    /\ poolIdle = 0
    /\ bpc = "idle"
    /\ requests = <<>>
    /\ responses = <<>>
    /\ requestChan = <<>>
    /\ chanClosed = FALSE
    /\ errChan = <<>>
    /\ sent = 0
    /\ wst = [w \in Workers |-> "off"]
    /\ widx = [w \in Workers |-> 0]
    /\ bret = NoRet
    /\ outcome = <<>>
    /\ took = <<>>
    /\ wrote = <<>>
    /\ InitScan

\* The processor and the client, nothing being framed.
InitPipe == InitProc /\ InitFrame({CMD_CONNECT}, {<<>>}) /\ InitFunc({<<>>})

\* The cache under callers that Get, Set and Clear; values are told apart by
\* their length only.
Init == InitCache(1..MaxCap) /\ InitPipe

CallGet == \E k \in Keys : Get(k, FALSE)
CallSet == \E k \in Keys, n \in 0..MaxLen : SetFresh(k, [i \in 1..n |-> 0], FALSE)

Next == CallGet \/ CallSet \/ Clear

Spec == Init /\ [][Next]_vars

\* The cache under a caller that keeps one of the pointers it passes or
\* receives, and writes through it.
InitAlias == InitCache({MaxAliasLen + 1}) /\ InitPipe

AliasGet    == \E k \in AliasKeys : Get(k, TRUE)
AliasSet    == \E k \in AliasKeys, n \in 1..MaxAliasLen, keep \in BOOLEAN :
                  SetFresh(k, [i \in 1..n |-> 0], keep)
AliasReSet  == \E k \in AliasKeys, h \in held : SetHeld(k, h)
AliasMutate == \E h \in held, i \in 1..MaxAliasLen, b \in Bytes : MutateByte(h, i, b)
AliasDrop   == \E h \in held : Drop(h)

NextAlias == AliasGet \/ AliasSet \/ AliasReSet \/ AliasMutate \/ AliasDrop

SpecAlias == InitAlias /\ [][NextAlias]_vars

\* ProcessTile under request handlers that call it concurrently.
InitTile == InitCache({MaxEncLen}) /\ InitPipe

TileRequests == [key : TileKeys, Format : Formats, Quality : {DefaultQuality}]

NextTile ==
    \/ \E c \in Direct, r \in TileRequests : Call(c, r)
    \/ \E c \in Direct : PT_Lookup(c)
    \/ \E c \in Direct : PT_Compute(c)
    \/ \E c \in Direct : PT_Checkout(c)
    \/ \E c \in Direct : PT_CopyEncode(c)
    \/ \E c \in Direct : PT_Store(c)
    \/ \E c \in Direct : PT_Release(c)
    \/ \E c \in Direct : Finish(c)
    \/ \E c \in Direct, i \in 1..MaxEncLen, b \in Bytes : CallerMutate(c, i, b)
    \/ PoolDrop

SpecTile == InitTile /\ [][NextTile]_vars

\* ProcessBatch on a new processor, its workers running ProcessTile.
InitBatch == InitCache({MaxEncLen}) /\ InitPipe

BatchRequests == [key : TileKeys, Format : {"webp"}, Quality : {DefaultQuality}]
Batches == UNION {[1..n -> BatchRequests] : n \in 0..MaxBatch}

NextBatch ==
    \/ \E reqs \in Batches : PB_Start(reqs)
    \/ PB_Send
    \/ PB_Close
    \/ \E w \in Workers : W_Receive(w)
    \/ \E w \in Workers : PT_Lookup(w)
    \/ \E w \in Workers : PT_Compute(w)
    \/ \E w \in Workers : PT_Checkout(w)
    \/ \E w \in Workers : PT_CopyEncode(w)
    \/ \E w \in Workers : PT_Store(w)
    \/ \E w \in Workers : PT_Release(w)
    \/ \E w \in Workers : W_Result(w)
    \/ \E w \in Workers : W_Error(w)
    \/ PB_Return
    \/ PB_Done

SpecBatch == InitBatch /\ [][NextBatch]_vars

\* ------------------------------------------------------------------ claims: TileCache

\* C1: after each Set returns, the resident byte total is at most maxSize.
\* Stated for a Set of a value that fits the capacity on its own, the case in
\* which no policy on oversized values is involved.
C1_CapacityInvariant ==
    (last.op = "Set" /\ lru[1].size <= maxSize)
        => currentSize <= maxSize /\ SizeOfKeys(lru, items) <= maxSize

\* The resident keys by last use, latest first.
ResidentOrder == SelectSeq(used, LAMBDA k : k \in items)

\* The step is a Set of a key that was absent.
SetOfNewKey == last'.op = "Set" /\ ~last'.hit /\ last'.key \notin items

\* C2: a Set of a new key evicts from the least-recently-used end only (every
\* evicted key was used less recently than every key that stays), evicts a key
\* only while that key and the more recent ones plus the new entry exceed the
\* capacity, stops as soon as the new entry fits, and counts no hit; with a
\* capacity that holds two entries of size s but not three, after A, B in that
\* order a Set of C evicts A alone, and after that a Set of A evicts B.
C2_LruEviction ==
    [][SetOfNewKey =>
        LET E    == items \ items'
            S    == items \cap items'
            size == lru'[1].size
            AtLeastAsRecent(e) ==
                {k \in items : PosIn(used, k) <= PosIn(used, e)}
        IN /\ lru'[1].key = last'.key
           /\ items' = S \cup {last'.key}
           /\ hits' = hits
           /\ \A e \in E : \A k \in S : PosIn(used, e) > PosIn(used, k)
           /\ \A e \in E : SizeOfKeys(lru, AtLeastAsRecent(e)) + size > maxSize
           /\ S # {} => SizeOfKeys(lru, S) + size <= maxSize
           /\ \A s \in 1..MaxLen :
                (/\ 2 * s <= maxSize /\ maxSize < 3 * s /\ size = s
                 /\ \A i \in 1..Len(lru) : lru[i].size = s)
                => /\ (ResidentOrder = <<"B", "A">> /\ last'.key = "C")
                        => items' = {"B", "C"}
                   /\ (ResidentOrder = <<"C", "B">> /\ last'.key = "A")
                        => items' = {"C", "A"}
    ]_vars

\* C2's case: capacity 2, one-byte entries A, B, C inserted in that order, then
\* A inserted again: B went, C stayed, no hit was counted.
C2_Witness ==
    /\ maxSize = 2
    /\ last.op = "Set" /\ last.key = "A" /\ ~last.hit
    /\ used = <<"A", "C", "B">>
    /\ items = {"A", "C"}
    /\ \A i \in 1..Len(lru) : lru[i].size = 1
    /\ hits = 0

\* No reference a Get returned reaches storage of the cache.
NoShare ==
    \A h \in fromGet :
        /\ h \notin EntryStructs(lru)
        /\ structs[h].Data \notin {structs[v].Data : v \in EntryStructs(lru)}

\* C3: what Get returns is byte-equal to the stored value and shares no storage
\* with the cache: a write through a returned value leaves the bytes of every
\* entry, hence what any later Get returns, as they were.
C3_CopyIsolation ==
    [][/\ NoShare'
       /\ (last'.op = "Get" /\ last'.hit /\ last'.ret \in held')
            => slices'[structs'[last'.ret].Data] = EntryData(last'.key)
       /\ (last'.op = "Mutate" /\ last'.ret \in fromGet)
            => /\ items' = items
               /\ \A k \in items : EntryData(k)' = EntryData(k)
    ]_vars

\* C3's case: a value Get returned for a key has been written to, and a later
\* Get of that key hit an entry that still holds the bytes that were Set.
C3_Witness ==
    /\ last.op = "Get" /\ last.hit
    /\ \E h \in fromGet :
        /\ structs[h].CacheKey = last.key
        /\ \E i \in 1..Len(slices[structs[h].Data]) : slices[structs[h].Data][i] = 1
        /\ Len(EntryData(last.key)) = Len(slices[structs[h].Data])
        /\ \A i \in 1..Len(EntryData(last.key)) : EntryData(last.key)[i] = 0

\* ------------------------------------------------------------------ claims: ProcessTile

\* The backing arrays the cache's entries reach.
EntrySlices == {structs[v].Data : v \in EntryStructs(lru)}

\* C4: a response ProcessTile has returned, after a hit or after a miss, is not
\* the object the cache stores and shares no bytes with it.
C4_ReturnedNotAliased ==
    \A c \in Callers :
        pc[c] = "done"
            => /\ resp[c] \notin EntryStructs(lru)
               /\ structs[resp[c]].Data \notin EntrySlices

\* What the cache holds: keys, order, recorded sizes, resident bytes, and the
\* bytes of every entry.
CacheContent ==
    <<items, [i \in 1..Len(lru) |-> <<lru[i].key, lru[i].size>>], currentSize,
      [k \in items |-> EntryData(k)]>>

\* C7: a ProcessTile that returns an error has left the cache as it was just
\* after its lookup: an error is returned only from the steps between the
\* lookup and the store, those steps are entered only in order from the lookup,
\* and none of them changes the cache's entries, order or resident bytes.
C7_FailureLeavesCache ==
    [][\A c \in Callers :
        /\ (pc'[c] # pc[c] /\ pc[c] \in {"compute", "checkout", "copyback"})
              => CacheContent' = CacheContent
        /\ (pc'[c] = "failed") => pc[c] \in {"failed", "compute", "copyback"}
        /\ (pc'[c] = "compute") => pc[c] \in {"compute", "lookup"}
        /\ (pc'[c] = "checkout") => pc[c] \in {"checkout", "compute"}
        /\ (pc'[c] = "copyback") => pc[c] \in {"copyback", "checkout"}
    ]_vars

\* C7's case: a call failed at the encoder while the cache held another tile.
C7_Witness ==
    \E c \in Callers :
        /\ pc[c] = "failed" /\ perr[c] = "encode"
        /\ items # {}
        /\ cacheKeyOf(treq[c]) \notin items

\* C8: when ProcessTile has returned, the buffer it took from the pool is back
\* in the pool.
C8_BufferReturned ==
    \A c \in Callers : pc[c] \in {"done", "failed"} => ~buf[c]

\* The calls that are running with a buffer checked out.
CheckedOut == {c \in Callers : pc[c] \in {"copyback", "store", "release"}}

\* C9: while every buffer of the pool is checked out, no further checkout
\* completes: the number of buffers out does not grow.
C9_CheckoutWaits ==
    [][(poolIdle = 0 /\ CheckedOut # {})
          => Cardinality(CheckedOut') <= Cardinality(CheckedOut)]_vars


\* ------------------------------------------------------------------ C5

\* Slot i holds the response for request i.
SlotHolds(sl, i) ==
    /\ sl[i] # Nil
    /\ structs[sl[i]].CacheKey = cacheKeyOf(requests[i])

\* C5: in a batch each item's outcome is isolated.  When ProcessBatch has
\* returned, it has returned the slots and no error of its own, every item
\* has been processed, the slot of every item whose ProcessTile succeeded holds
\* its response, and the slot of every item whose ProcessTile failed holds no
\* response.
C5_BatchIsolation ==
    bpc = "returned" =>
        /\ bret.err = "none"
        /\ Len(bret.slots) = Len(requests)
        /\ \A i \in 1..Len(requests) :
            /\ outcome[i] # "none"
            /\ outcome[i] = "ok" => SlotHolds(bret.slots, i)
            /\ outcome[i] = "err" => bret.slots[i] = Nil

\* ------------------------------------------------------------------ C6

\* Slot i is written at most once, and by the one worker that dequeued item i.
SlotsOwned ==
    \A i \in 1..Len(requests) :
        /\ Len(took[i]) <= 1
        /\ Len(wrote[i]) <= 1
        /\ \A k \in 1..Len(wrote[i]) : took[i] = <<wrote[i][k]>>

\* When ProcessBatch returns without error every slot i holds the response
\* for request i.
SlotsComplete ==
    (bpc = "returned" /\ bret.err = "none") =>
        /\ Len(bret.slots) = Len(requests)
        /\ \A i \in 1..Len(requests) : SlotHolds(bret.slots, i)

\* C6: ProcessBatch returns exactly one slot per request in input order, slot
\* i is written only by the single worker that dequeued item i, and when it
\* returns without error every slot i holds the response for request i.
C6_OneSlotPerRequest ==
    /\ bpc = "returned" => Len(bret.slots) = Len(requests)
    /\ SlotsOwned
    /\ SlotsComplete

\* The parts of C6 that do not depend on how a failed item is reported.
BatchSlotsSound == SlotsOwned /\ SlotsComplete

\* The scanner client after NewInterface, its callers scanning, cancelling
\* and closing.
NextScan ==
    \/ N_Dial
    \/ N_Hello
    \/ Q_Send
    \/ \E who \in {"query", "status"} : R_Length(who)
    \/ \E who \in {"query", "status"} : R_Payload(who)
    \/ \E n \in 0..MaxLayers : StartScan(n)
    \/ SS_Header
    \/ SS_Data
    \/ SS_Read
    \/ Cancel
    \/ ScanDone
    \/ GetStatus
    \/ StatusDone
    \/ \E layer \in 1..MaxInfo : SetFocusLayer(layer)
    \/ Close
    \/ Break

InitClient == InitCache({MaxCap}) /\ InitPipe

SpecScan == InitClient /\ [][NextScan]_vars

\* ------------------------------------------------------------------ C10

\* C10: an I/O error while StartScan is receiving layer data aborts the whole
\* scan, returns no layers, and leaves the client disconnected, so that no
\* later StartScan gets as far as receiving.
C10_ReceiveErrorDisconnects ==
    /\ (scanpc = "done" /\ sret.err = "read") =>
            (~sret.result /\ sret.layers = 0 /\ ~connected)
    /\ rxFailed => scanpc \notin {"header", "data", "read"}

\* The part of C10 about what the aborted scan returns.
ScanAbortsWhole ==
    (scanpc = "done" /\ sret.err = "read") => (~sret.result /\ sret.layers = 0)

\* sendCommand's framing, for every opcode and every payload up to MaxPayload.
InitFraming ==
    /\ InitCache({MaxCap})
    /\ InitProc
    /\ InitFrame(Opcodes, SeqsUpTo(PayloadBytes, MaxPayload))
    /\ InitFunc({<<>>})

NextFrame == Encode \/ Decode

SpecFrame == InitFraming /\ [][NextFrame]_vars

\* ------------------------------------------------------------------ C20

\* C20: the bytes sendCommand writes are the opcode, the payload length as
\* four bytes, most significant first, and the payload; and decoding them
\* gives back that opcode and that payload, the empty payload included.
C20_FramingRoundTrip ==
    /\ fbytes # <<>> =>
        /\ Len(fbytes) = 5 + Len(fdata)
        /\ fbytes[1] = fcmd
        /\ fbytes[2] * 16777216 + fbytes[3] * 65536 + fbytes[4] * 256 + fbytes[5] = Len(fdata)
        /\ \A i \in 1..Len(fdata) : fbytes[5 + i] = fdata[i]
    /\ fdec # NoCommand => fdec = [op |-> fcmd, payload |-> fdata]

C20_Witness ==
    /\ fdec # NoCommand
    /\ fcmd = CMD_SCAN
    /\ Len(fdata) = MaxPayload

\* ------------------------------------------------------------------ C11

\* The connection state of the client, read off its fields: the handshake is
\* under way, or connected is false, or a StartScan is receiving, or neither.
Receiving == scanpc \in {"header", "data", "read"}
ConnState ==
    IF qpc = "dialled" THEN "Connecting"
    ELSE IF ~connected THEN "Disconnected"
    ELSE IF Receiving THEN "Scanning"
    ELSE "Connected"

\* C11: the client is in one connection state at a time (a scan receives only
\* while connected); a StartScan that starts receiving starts in Connected and
\* makes the state Scanning; one that ends with a result leaves the state
\* Connected; and one called on a client that is not connected returns the
\* error at once and writes nothing.
C11_ScanStates ==
    [][/\ Receiving => connected
       /\ (~Receiving /\ Receiving') =>
              (ConnState = "Connected" /\ ConnState' = "Scanning")
       /\ (Receiving /\ scanpc' = "done" /\ sret'.result) => ConnState' = "Connected"
       /\ (scanpc = "idle" /\ scanpc' # "idle" /\ ~connected) =>
              (scanpc' = "done" /\ sret'.err = "not connected" /\ nwrites' = nwrites)
      ]_vars

C11_Witness ==
    /\ scanpc = "done"
    /\ sret.err = "not connected"
    /\ conn = "closed"

\* ------------------------------------------------------------------ C12

\* C12: connected becomes true only in a step of connect that has sent
\* CONNECT and takes the device's handshake reply off the connection.
C12_ConnectedAfterHandshake ==
    [][(~connected /\ connected') =>
           (lastw'.who = "connect" /\ lastw'.ok /\ Len(rx') < Len(rx))]_vars

\* The other half of the handshake contract: a connect whose CONNECT could not
\* be written ends with an error, the connection closed, connected false.
HandshakeFailureReleases ==
    [][(qpc = "dialled" /\ qpc' = "failed") =>
           (~connected' /\ conn' = "closed" /\ nret' = "write")]_vars

\* ------------------------------------------------------------------ C13

\* The number of bytes a step takes off the connection (a break of the link,
\* which drops what was in flight, is not a Read).
Taken == IF link' = "up" /\ Len(rx') < Len(rx) THEN Len(rx) - Len(rx') ELSE 0

\* The reader is at the Read of a field of which `want` bytes are still to come.
AtLength(who) == Reading(who, "length")
AtPayload(who) == Reading(who, "payload")
StillAt(who, at) == IF who = "query" THEN qpc' = at ELSE stpc' = at

\* C13: a Read that brings fewer bytes than the field still needs is not the
\* end of the field: after it the reader is still reading the same field, for
\* the response length, the response payload, the layer header and the layer
\* data alike.
C13_ReadsLoop ==
    [][/\ \A who \in {"query", "status"} :
            /\ (AtLength(who) /\ Taken > 0 /\ Taken < LenPrefix) => StillAt(who, "length")
            /\ (AtPayload(who) /\ Taken > 0 /\ Taken < rlength - Len(response)) =>
                   (StillAt(who, "payload") /\ Len(response') = Len(response) + Taken)
       /\ (scanpc = "header" /\ Taken > 0 /\ Taken < HeaderLen) => scanpc' = "header"
       /\ (scanpc = "read" /\ Taken > 0 /\ Taken < dataSize - totalRead) =>
              (scanpc' = "data" /\ totalRead' = totalRead + Taken)
      ]_vars

\* The two loops the code does have: the payload and the layer data.
PayloadAndDataLoop ==
    [][/\ \A who \in {"query", "status"} :
            (AtPayload(who) /\ Taken > 0 /\ Taken < rlength - Len(response)) =>
                (StillAt(who, "payload") /\ Len(response') = Len(response) + Taken)
       /\ (scanpc = "read" /\ Taken > 0 /\ Taken < dataSize - totalRead) =>
              (scanpc' = "data" /\ totalRead' = totalRead + Taken)
      ]_vars

\* What a scan that succeeded returns, written back as the device writes
\* layers.
Resent == Concat([i \in 1..Len(layers) |->
                     LayerHeader(layers[i].Layer, Len(layers[i].RawData))
                         \o layers[i].RawData])

\* The consequence for a caller: a scan that read only its own bytes and
\* returned a result returned the layers the device sent.
ScanReturnsWhatWasSent ==
    (scanpc = "done" /\ sret.result /\ ~misread /\ wanted > 0 /\ lastw.who = "scan")
        => Resent = dreply

\* ------------------------------------------------------------------ C14

\* C14: once the context of a receiving StartScan is cancelled no Read is
\* entered any more (a Read already under way may return), neither of layer
\* data nor of a layer header; and the scan that returns the cancellation
\* leaves the client disconnected.
C14_CancelStopsReads ==
    [][/\ (cancelled /\ Receiving /\ scanpc' \in {"header", "read"}) =>
              (scanpc' = scanpc /\ Taken = 0)
       /\ (Receiving /\ scanpc' = "done" /\ sret'.err = "cancelled") => ~connected'
      ]_vars

\* The check the code does make: no Read of layer data is entered after the
\* cancellation, and the scan then returns the cancellation and no layers.
DataReadChecksCancel ==
    [][(cancelled /\ scanpc = "data") =>
           (scanpc' # "read" /\
            (scanpc' = "done" => (sret'.err = "cancelled" /\ sret'.layers = 0)))]_vars

\* Only this part of C14 fails besides the state after the return: a layer
\* header is read after the cancellation.
NoHeaderReadAfterCancel ==
    [][(cancelled /\ Receiving /\ scanpc' = "header") =>
           (scanpc = "header" /\ Taken = 0)]_vars

\* ------------------------------------------------------------------ C15

\* The step is a call of Close.
IsClose == ops' = ops + 1 /\ opret'.op = "Close" /\ stpc' = stpc

\* C15: when Close returns the connection is closed and connected is false,
\* whether DISCONNECT could be written or not; and a Close of a client that is
\* not connected, a second Close among them, writes nothing.
C15_CloseReleases ==
    [][IsClose => /\ ~connected'
                  /\ conn' = "closed"
                  /\ connected => (nwrites' = nwrites + 1 /\ lastw'.who = "close")
                  /\ ~connected => nwrites' = nwrites
      ]_vars

\* Close has returned after a DISCONNECT that could not be written.
C15_Witness ==
    /\ opret.op = "Close"
    /\ lastw = [who |-> "close", ok |-> FALSE]
    /\ ~connected
    /\ conn = "closed"

\* ------------------------------------------------------------------ C16

\* The operations that are between their command and their return.
Exchanging ==
    {op \in {"query", "status", "scan"} :
        \/ op = "query" /\ qpc \in {"length", "payload"}
        \/ op = "status" /\ stpc \in {"length", "payload"}
        \/ op = "scan" /\ Receiving}

\* One exchange at a time: the operation that is in an exchange holds the lock.
SerializedExchanges ==
    /\ Cardinality(Exchanging) <= 1
    /\ Exchanging # {} => mu # "free"

\* C16: one exchange is outstanding at a time, and no operation reads bytes the
\* device sent in answer to the command of another.
C16_OneExchange ==
    /\ SerializedExchanges
    /\ ~misread

\* ------------------------------------------------------------------ C17

\* The errors of the connection: a Write or a Read that failed (a Read at the
\* end of the stream among them).
IOError(e) == e \in {"write", "read"}

\* The step is a call of SetFocusLayer.
IsFocus == ops' = ops + 1 /\ opret'.op = "SetFocusLayer" /\ stpc' = stpc

\* C17: the step in which queryLayerInfo, GetStatus, SetFocusLayer or StartScan
\* returns an error of the connection leaves the client disconnected.
C17_IOErrorDisconnects ==
    [][/\ (qpc \in {"connected", "length", "payload"} /\ qpc' = "failed" /\ IOError(nret'))
              => ~connected'
       /\ (stpc # "done" /\ stpc' = "done" /\ IOError(stret'.err)) => ~connected'
       /\ (IsFocus /\ IOError(opret'.err)) => ~connected'
       /\ (scanpc # "done" /\ scanpc' = "done" /\ IOError(sret'.err)) => ~connected'
      ]_vars

\* ------------------------------------------------------------------ C18

\* The steps of a call that is under way.  The goroutine making the call is
\* scheduled as long as it can run, which a Read waiting for bytes cannot;
\* callers are not bound to call, nor the network to break.
Proceed ==
    \/ N_Hello
    \/ Q_Send
    \/ \E who \in {"query", "status"} : R_Length(who)
    \/ \E who \in {"query", "status"} : R_Payload(who)
    \/ SS_Header
    \/ SS_Data
    \/ SS_Read

SpecScanFair == SpecScan /\ WF_vars(Proceed)

\* C18: a call that has sent its command returns and gives the lock back,
\* whatever the device does after that.
C18_CallsReturn == (Exchanging # {}) ~> (Exchanging = {} /\ mu = "free")

\* The same without fairness: a call in an exchange can always take a step, if
\* only that of its Read timing out.
ReadsCanTimeOut == Exchanging # {} => ENABLED Proceed

\* ------------------------------------------------------------------ C19

\* C19: a response shorter than its fields declare makes the call return an
\* error: queryLayerInfo and GetStatus do not panic on it, and a queryLayerInfo
\* that failed has stored nothing in the layer table.
C19_FramingErrorsReturned ==
    /\ nret # "panic"
    /\ stret.err # "panic"
    /\ qpc = "failed" => layerData = {}

\* The part of C19 about the tile cache and the buffer pool: no step of the
\* device client touches them.
ClientLeavesTiler == [][UNCHANGED tilerVars]_vars

\* A queryLayerInfo that panicked has stored nothing.  This does not hold:
\* when the response announces a record more than it holds, the records
\* present are stored before the panic.
FailedQueryStoresNothing == ~(qpc = "failed" /\ nret = "panic" /\ layerData # {})

\* ------------------------------------------------------------------ C21

\* Most records in a GET_LAYERS response given to the parser.
MaxRecords == 2

\* The layers a device may describe: the fields take values that tell them
\* apart from one another.
LayerInfos ==
    [LayerIndex : {1, 2}, Width : {2, 40000}, Height : {3, 30000},
     FocusDepth : {Thousandths(0), Thousandths(1500)}, TileSize : {256, 512}]

\* The 20-byte record of one layer, and the response describing infos, as
\* queryLayerInfo expects them (line 190).
RecordOf(info) ==
    PutUint32(info.LayerIndex) \o PutUint32(info.Width) \o PutUint32(info.Height)
        \o PutUint32(info.FocusDepth.num) \o PutUint32(info.TileSize)
LayersResponse(infos) ==
    PutUint32(Len(infos)) \o Concat([i \in 1..Len(infos) |-> RecordOf(infos[i])])

\* queryLayerInfo parses the response describing arg into an empty table.
ParseLayers ==
    /\ ~applied
    /\ applied' = TRUE
    /\ res' = LET rsp == LayersResponse(arg) IN StoredAfter(<<>>, rsp, Rounds(rsp))
    /\ UNCHANGED <<tilerVars, clientVars, fcmd, fdata, fbytes, fdec, arg, authVars>>

InitParse ==
    /\ InitCache({MaxCap})
    /\ InitProc
    /\ InitFrame({CMD_GET_LAYERS}, {<<>>})
    /\ InitFunc(SeqsUpTo(LayerInfos, MaxRecords))

NextParse == ParseLayers

SpecParse == InitParse /\ [][NextParse]_vars

\* The indices of the layers described.
IndicesOf(infos) == {infos[i].LayerIndex : i \in 1..Len(infos)}
Distinct(infos) == Cardinality(IndicesOf(infos)) = Len(infos)

\* C21 as stated: a response of N records parses into N entries, one per
\* record, each with the fields of its record.
C21_OneEntryPerRecord ==
    applied => /\ Cardinality(DOMAIN res) = Len(arg)
               /\ \A i \in 1..Len(arg) : res[arg[i].LayerIndex] = arg[i]

\* C21, amended: a response of N records parses into one entry per layer index
\* described, carrying the fields of the last record with that index, the focus
\* depth being the raw value in thousandths; so N records of N different
\* layers make N entries, each with the fields of its record.
C21_ParsesRecords ==
    applied =>
        /\ DOMAIN res = IndicesOf(arg)
        /\ \A i \in 1..Len(arg) :
              (\A j \in (i + 1)..Len(arg) : arg[j].LayerIndex # arg[i].LayerIndex)
                  => res[arg[i].LayerIndex] = arg[i]
        /\ Distinct(arg) => Cardinality(DOMAIN res) = Len(arg)

\* Two records of two layers were parsed, one of them with a focus depth.
C21_Witness ==
    /\ applied
    /\ Len(arg) = 2
    /\ Distinct(arg)
    /\ Cardinality(DOMAIN res) = 2
    /\ res[1].FocusDepth = Thousandths(1500)
    /\ res[2].Width = 40000

\* ------------------------------------------------------------------ C22

\* C22: a StartScan that succeeded for the layers 1..n returns n layers, the
\* i-th being layer i, with the bytes the device sent for it, as many as the
\* header the device sent for it declares.  (Until the next command is written
\* dreply is what the device answered the scan with.)
C22_ScanReturnsLayers ==
    (scanpc = "done" /\ sret.result /\ lastw.who = "scan") =>
        /\ Len(layers) = wanted
        /\ \A i \in 1..Len(layers) : layers[i].Layer = i
        /\ Resent = dreply

\* The part of C22 the receive loop does give: a scan that succeeded returns
\* as many layers as were requested.
ScanReturnsRequestedCount ==
    (scanpc = "done" /\ sret.result) => (sret.layers = wanted /\ Len(layers) = wanted)

\* ------------------------------------------------------------------ C23

\* The keys of a list of entries, front first.
KeysOf(l) == [i \in 1..Len(l) |-> l[i].key]

\* The step is a call of Get.
IsGet == last'.op = "Get" /\ (hits' # hits \/ misses' # misses \/ lru' # lru)

\* C23: a Get of a resident key adds one to hits, leaves misses, and moves the
\* key to the front of the list, the other entries keeping their order; a Get
\* of an absent key adds one to misses, leaves hits, and changes neither the
\* entries, nor their order, nor the resident bytes.
C23_GetFrame ==
    [][IsGet =>
        LET k == last'.key
        IN IF k \in items
           THEN /\ last'.hit
                /\ hits' = hits + 1
                /\ misses' = misses
                /\ KeysOf(lru') = Touch(KeysOf(lru), k)
                /\ items' = items
                /\ currentSize' = currentSize
           ELSE /\ ~last'.hit
                /\ misses' = misses + 1
                /\ hits' = hits
                /\ items' = items
                /\ lru' = lru
                /\ currentSize' = currentSize
      ]_vars

\* A hit and a miss have been counted, the hit on the key now in front of
\* another entry.
C23_Witness ==
    /\ last.op = "Get" /\ last.hit
    /\ hits = 1 /\ misses = 1
    /\ Len(lru) >= 2
    /\ lru[1].key = last.key
    /\ used[2] = lru[2].key

\* ------------------------------------------------------------------ Prefetch

\* The goroutines Prefetch starts run on the names of Direct; treq holds the
\* key each was started for.
Fetching(c) == pc[c] = "fetch"
IdleFirst == IF pc["d1"] = "idle" THEN "d1" ELSE "d2"

\* Prefetch, lines 134-145: one round of the loop over keys.  The Get counts
\* as any other; for a key that is absent a goroutine is started.
PrefetchKey(key) ==
    LET cp == CopyFor(key)
    IN /\ hits + misses < MaxGets
       /\ \E c \in Direct : pc[c] = "idle"
       /\ TileCacheGet(key, cp)
       /\ IF key \in items
          THEN UNCHANGED <<pc, treq>>
          ELSE /\ pc' = [pc EXCEPT ![IdleFirst] = "fetch"]
               /\ treq' = [treq EXCEPT ![IdleFirst] = [key |-> key, Format |-> "", Quality |-> 0]]
       /\ Collect(cp[1], cp[2], Roots(lru', held, resp))
       /\ UNCHANGED <<held, fromGet, resp, perr, buf, poolIdle>>
       /\ UNCHANGED <<batchVars, scanVars>>

\* Prefetch, lines 139-144: the goroutine; fetcher fails, or what it returns is
\* Set under the key.
Fetched(c) ==
    /\ Fetching(c)
    /\ pc' = [pc EXCEPT ![c] = "idle"]
    /\ treq' = [treq EXCEPT ![c] = NoReq]
    /\ \/ /\ last' = [op |-> "Fetch", key |-> treq[c].key, hit |-> FALSE, ret |-> Nil]
          /\ UNCHANGED <<cacheVars, heapVars, used>>
       \/ \E n \in 0..MaxLen :
            LET key == treq[c].key
                nr  == newResponse(structs, slices, LiveAcrossSet(key),
                                   [i \in 1..n |-> 0], "image/webp", key)
            IN /\ TileCacheSet(key, nr[3], n)
               /\ UNCHANGED <<held, fromGet>>
               /\ Collect(nr[1], nr[2], Roots(lru', held, resp))
    /\ UNCHANGED <<resp, perr, buf, poolIdle>>
    /\ UNCHANGED <<batchVars, scanVars>>

\* The cache under callers that Get, Set, Clear and Prefetch.
InitPrefetch == InitCache({MaxLen + 1}) /\ InitPipe

NextPrefetch ==
    \/ CallGet
    \/ CallSet
    \/ Clear
    \/ \E k \in Keys : PrefetchKey(k)
    \/ \E c \in Direct : Fetched(c)

SpecPrefetch == InitPrefetch /\ [][NextPrefetch]_vars

\* ------------------------------------------------------------------ C24

\* The step is a call of Clear.
IsClear == last'.op = "Clear"

\* C24: no step but Clear lowers hits or misses, and Clear leaves hits, misses
\* and the resident bytes at zero and the cache empty.
C24_CountersAndClear ==
    [][/\ ~IsClear => (hits' >= hits /\ misses' >= misses)
       /\ IsClear => /\ hits' = 0
                     /\ misses' = 0
                     /\ currentSize' = 0
                     /\ items' = {}
                     /\ lru' = <<>>
      ]_vars

\* What the code gives: the counters never go down, at Clear neither, and
\* Clear empties the cache and zeroes the resident bytes.
CountersNeverDecrease == [][hits' >= hits /\ misses' >= misses]_vars
ClearEmpties == [][IsClear => (currentSize' = 0 /\ items' = {} /\ lru' = <<>>)]_vars

\* ------------------------------------------------------------------ C25

\* The step is a Set of a key that is resident.
SetOfResidentKey == last'.op = "Set" /\ last'.key \in items

\* C25: a Set of a resident key stores the value passed, with its length as
\* the entry's size; the resident bytes change by the new size less the old;
\* the key goes to the front, the others keep their order; no entry is added
\* or removed and no other entry changes; the counters stay.
C25_SetExistingFrame ==
    [][SetOfResidentKey =>
        LET k   == last'.key
            old == lru[IndexOf(lru, k)]
            new == lru'[1]
        IN /\ new.key = k
           /\ new.value = last'.ret
           /\ new.size = Len(slices'[structs'[new.value].Data])
           /\ currentSize' = currentSize - old.size + new.size
           /\ KeysOf(lru') = Touch(KeysOf(lru), k)
           /\ items' = items
           /\ \A j \in 1..Len(lru) :
                 lru[j].key # k => lru'[IndexOf(lru', lru[j].key)] = lru[j]
           /\ hits' = hits /\ misses' = misses
      ]_vars

\* A resident key behind another was Set again, with a value of MaxLen bytes.
C25_Witness ==
    /\ last.op = "Set" /\ last.hit
    /\ Len(lru) = 2
    /\ lru[1].key = last.key
    /\ lru[1].size = MaxLen
    /\ currentSize = MaxLen + lru[2].size

\* ------------------------------------------------------------------ C26

\* C26: a Set of an absent key with a value longer than maxSize evicts every
\* entry and inserts the new one: afterwards the cache holds that entry alone,
\* with the value passed, and the key is resident, so that a Get of it hits.
C26_OversizedInserted ==
    [][(SetOfNewKey /\ Len(slices'[structs'[last'.ret].Data]) > maxSize) =>
           /\ Len(lru') = 1
           /\ lru'[1].key = last'.key
           /\ lru'[1].value = last'.ret
           /\ lru'[1].size = Len(slices'[structs'[last'.ret].Data])
           /\ items' = {last'.key}
           /\ currentSize' = lru'[1].size
      ]_vars

\* After other keys had been resident, a key with a value longer than maxSize
\* is alone in the cache and a Get of it has hit.
C26_Witness ==
    /\ last.op = "Get" /\ last.hit
    /\ Len(lru) = 1
    /\ lru[1].key = last.key
    /\ lru[1].size > maxSize
    /\ Len(used) = 3

\* ------------------------------------------------------------------ C27

\* TileCache.Stats
Stats == [hits |-> hits, misses |-> misses, size |-> currentSize, count |-> Len(lru)]

\* C27: in every state each entry's size is the length of the bytes it holds;
\* the map and the list hold the same keys, none twice; Stats counts that many
\* entries; and the resident bytes are the sum of the entries' sizes.
C27_CacheConsistent ==
    /\ \A i \in 1..Len(lru) : lru[i].size = Len(slices[structs[lru[i].value].Data])
    /\ items = {lru[i].key : i \in 1..Len(lru)}
    /\ Cardinality(items) = Len(lru)
    /\ Stats.count = Cardinality(items)
    /\ currentSize = SizeOfKeys(lru, items)
    /\ Stats.size = currentSize

\* Two entries are resident, the later one Set after two misses, while a
\* goroutine of Prefetch is still fetching.
C27_Witness ==
    /\ Len(lru) = 2
    /\ currentSize = MaxLen + 1
    /\ last.op = "Set"
    /\ misses = MaxGets
    /\ \E c \in Direct : Fetching(c)

\* ------------------------------------------------------------------ cache keys

\* A string is the sequence of its characters; the characters slide ids are
\* made of here include the key's separator and a digit.
MaxIdLen == 2
IdChars == {"a", ":", "1"}
SlideIDs == SeqsUpTo(IdChars, MaxIdLen)

\* The verb %d of an int: its decimal digits, after a minus sign when negative.
DigitChar(d) == <<"0", "1", "2", "3", "4", "5", "6", "7", "8", "9">>[d + 1]

RECURSIVE Itoa(_)
Itoa(n) ==
    IF n < 0 THEN <<"-">> \o Itoa(0 - n)
    ELSE IF n < 10 THEN <<DigitChar(n)>>
    ELSE Itoa(n \div 10) \o <<DigitChar(n % 10)>>

\* The identity fields of a TileRequest.
TileIdentities ==
    [SlideID : SlideIDs, Layer : {1, 11}, X : {1, 11}, Y : {-1, 1}, Z : {-1, 1}]

\* A key that leaves the separators out.
cacheKeyAlt(req) ==
    req.SlideID \o Itoa(req.Layer) \o Itoa(req.X) \o Itoa(req.Y) \o Itoa(req.Z)

\* ProcessTile's cacheKey: fmt.Sprintf("%s:%d:%d:%d:%d", ...).
cacheKey(req) ==
    req.SlideID \o <<":">> \o Itoa(req.Layer) \o <<":">> \o Itoa(req.X)
                \o <<":">> \o Itoa(req.Y) \o <<":">> \o Itoa(req.Z)

\* ProcessTile computes the keys of the two requests of arg.
MakeKeys ==
    /\ ~applied
    /\ applied' = TRUE
    /\ res' = <<cacheKey(arg[1]), cacheKey(arg[2])>>
    /\ UNCHANGED <<tilerVars, clientVars, fcmd, fdata, fbytes, fdec, arg, authVars>>

InitKeys ==
    /\ InitCache({MaxCap})
    /\ InitProc
    /\ InitFrame({CMD_CONNECT}, {<<>>})
    /\ InitFunc(TileIdentities \X TileIdentities)

NextKeys == MakeKeys

SpecKeys == InitKeys /\ [][NextKeys]_vars


\* C28: every tile identity has a cache key, and two requests get the same
\* cache key if and only if their slide id, layer, x, y and z are all equal,
\* slide ids containing ':' and negative or many-digit integers included.
C28_KeyInjective ==
    applied => /\ Len(res[1]) > 0 /\ Len(res[2]) > 0
               /\ (res[1] = res[2]) <=> (arg[1] = arg[2])

\* Two different identities whose keys have the same length and the same
\* number of fields when split at ':', one slide id containing the separator.
C28_Witness ==
    /\ applied
    /\ arg[1].SlideID = <<"1", ":">>
    /\ arg[2].SlideID = <<"1">>
    /\ arg[1].Layer = 1 /\ arg[2].Layer = 11
    /\ arg[1].Y = -1
    /\ Len(res[1]) = Len(res[2])
    /\ res[1] # res[2]

\* ------------------------------------------------------------------ the HTTP handlers

\* Longest batch the batch endpoint is given here, the oversized ones apart.
MaxApiBatch == 1

\* What a client can ask for: format and quality given or left out, and a
\* format no encoder has with a quality above 100.
ApiRequests ==
    [key : {"A"}, Format : {"", "jpeg"}, Quality : {0, 50}]
        \cup {[key |-> "A", Format |-> "png", Quality |-> 101]}

\* The bodies the batch endpoint decodes: short batches, and batches one item
\* over the limit.
Oversized == {[i \in 1..(MaxBatchSize + 1) |-> r] : r \in ApiRequests}
ApiBatches == UNION {[1..n -> ApiRequests] : n \in 0..MaxApiBatch} \cup Oversized

\* handleGetTile, lines 77-84: an absent format or quality gets its default.
formatOr(format) == IF format = "" THEN "webp" ELSE format
qualityOr(quality) == IF quality = 0 THEN DefaultQuality ELSE quality

\* handleGetTile: the request is built from the query and given to ProcessTile.
handleGetTile(c, key, format, quality) ==
    Call(c, [key |-> key, Format |-> formatOr(format), Quality |-> qualityOr(quality)])

Rejected == [op |-> "Reject", key |-> "", hit |-> FALSE, ret |-> Nil]

\* A rejection that comes after the workers were started.
RejectAlt ==
    /\ last' = Rejected
    /\ wst' = [w \in Workers |-> "ready"]
    /\ UNCHANGED <<cacheVars, heapVars, used, pipeVars, bpc, requests, responses,
                   requestChan, chanClosed, errChan, sent, widx, bret, outcome, took,
                   wrote>>
    /\ UNCHANGED scanVars

\* handleBatchTiles, lines 132-135: 400 "Batch size too large (max 100)".
Reject ==
    /\ last' = Rejected
    /\ UNCHANGED <<cacheVars, heapVars, used, pipeVars, batchVars>>
    /\ UNCHANGED scanVars

\* handleBatchTiles: the decoded requests go to ProcessBatch as they are, unless
\* there are too many of them.
handleBatchTiles(reqs) ==
    IF Len(reqs) > MaxBatchSize THEN Reject ELSE PB_Start(reqs)

InitApi == InitCache({MaxEncLen}) /\ InitPipe

NextApi ==
    \/ \E r \in ApiRequests : handleGetTile("d1", r.key, r.Format, r.Quality)
    \/ \E reqs \in ApiBatches : handleBatchTiles(reqs)
    \/ PB_Send
    \/ PB_Close
    \/ \E w \in Workers : W_Receive(w)
    \/ \E c \in Callers : PT_Lookup(c)
    \/ \E c \in Callers : PT_Compute(c)
    \/ \E c \in Callers : PT_Checkout(c)
    \/ \E c \in Callers : PT_CopyEncode(c)
    \/ \E c \in Callers : PT_Store(c)
    \/ \E c \in Callers : PT_Release(c)
    \/ \E c \in Direct : Finish(c)
    \/ \E w \in Workers : W_Result(w)
    \/ \E w \in Workers : W_Error(w)
    \/ PB_Return
    \/ PB_Done

SpecApi == InitApi /\ [][NextApi]_vars

\* A goroutine is between the cache miss and the end of encodeTile.
InComputeStage(c) == pc[c] \in {"compute", "checkout", "copyback"}
DefaultsApplied(c) == treq[c].Format # "" /\ treq[c].Quality # 0

\* C29: a request in the compute/encode stage never has an empty format or a
\* zero quality, whichever endpoint it came through.
C29_DefaultsApplied ==
    \A c \in Callers : InComputeStage(c) => DefaultsApplied(c)

\* The part of C29 about the single-tile endpoint: its requests carry webp and
\* 85 where the query left format and quality out.
SingleTileDefaults ==
    \A c \in Direct : pc[c] # "idle" => DefaultsApplied(c)

\* C30: the step that rejects an oversized batch changes nothing of the cache,
\* the pool, the calls in progress or the batch in progress: no lookup, no
\* load, no compute call and no worker start.
C30_RejectedBeforeWork ==
    [][last'.op = "Reject" => UNCHANGED <<cacheVars, heapVars, pipeVars, batchVars>>]_vars

\* An oversized batch was rejected while the cache held a tile.
C30_Witness ==
    /\ last.op = "Reject"
    /\ lru # <<>>

\* ------------------------------------------------------------------ validation

\* The formats encodeTile has an encoder for, and the qualities they take.
EncoderFormats == {"jpeg", "webp", "avif"}
ValidRequest(req) == req.Format \in EncoderFormats /\ req.Quality \in 1..100

\* C31: no goroutine does pipeline work (lookup, load, compute, encode, store)
\* for a request whose format is not jpeg, webp or avif or whose quality is
\* outside 1..100, on the single-tile path and on the batch path.
C31_InvalidRejected ==
    \A c \in Callers : pc[c] \notin {"idle", "lookup"} => ValidRequest(treq[c])

\* ------------------------------------------------------------------ hits and misses

\* The step in which ProcessTile's lookup is made, and the one in which it
\* stores its response.
IsLookup(c) == pc[c] = "lookup" /\ pc'[c] # "lookup"
IsStore(c)  == pc[c] = "store" /\ pc'[c] = "release"

\* A lookup of a resident key returns the cached tile at once: no load, no
\* compute, no buffer taken from the pool, no error.
HitReturns ==
    \A c \in Callers :
        IsLookup(c) /\ cacheKeyOf(treq[c]) \in items
            => /\ pc'[c] = "done"
               /\ last'.hit
               /\ resp'[c] = last'.ret /\ resp'[c] # Nil
               /\ UNCHANGED <<buf, poolIdle, perr>>

\* A miss that succeeds leaves its key resident.
StoreKeeps == \A c \in Callers : IsStore(c) => cacheKeyOf(treq[c]) \in items'

\* A key stops being resident only when a Set of another key evicts it or the
\* cache is cleared.
LeavesOnlyBy ==
    \A k \in items \ items' :
        \/ last'.op = "Clear"
        \/ last'.op = "Set" /\ last'.key # k

\* C32: a hit returns the cached tile without load, compute or buffer checkout;
\* a successful miss leaves the key resident, and a key stays resident, so that
\* its next lookup is a hit, until it is evicted or the cache is cleared.
C32_HitsAndMisses == [][HitReturns /\ StoreKeeps /\ LeavesOnlyBy]_vars

\* A call that was a hit on what an earlier call computed and stored.
C32_Witness ==
    /\ last.op = "Get" /\ last.hit
    /\ \E c \in Direct : pc[c] = "done" /\ resp[c] = last.ret /\ ~buf[c]
    /\ misses > 0

\* ------------------------------------------------------------------ sharpenKernel

\* Largest width and height of an image.
MaxDim == 3

\* Byte c of the pixel at (x, y) of an RGBA image, counted from 0 as the
\* kernel does; At reads it from a buffer.
Idx(x, y, width) == (y * width + x) * 4
At(buffer, i) == buffer[i + 1]

\* Line 233: the threads that return at once.
Returns(x, y, width, height) == x < 1 \/ x >= width - 1 \/ y < 1 \/ y >= height - 1

\* Lines 240-248 for an amount that is a whole number: nine times the blur is
\* the sum of the nine neighbours, the result is clamped to 0..255 and cut to
\* a byte.
Sharpened(input, idx, stride, c, amount) ==
    LET center == At(input, idx + c)
        sum == At(input, idx - stride - 4 + c) + At(input, idx - stride + c)
                 + At(input, idx - stride + 4 + c)
                 + At(input, idx - 4 + c) + At(input, idx + c) + At(input, idx + 4 + c)
                 + At(input, idx + stride - 4 + c) + At(input, idx + stride + c)
                 + At(input, idx + stride + 4 + c)
        ninefold == 9 * center + amount * (9 * center - sum)
    IN IF ninefold <= 0 THEN 0
       ELSE IF ninefold >= 9 * 255 THEN 255
       ELSE ninefold \div 9

\* sharpenKernel over the whole grid: what the output buffer holds after
\* applySharpen.  Each thread writes the four bytes of its own pixel only.
sharpenKernel(input, output, width, height, amount) ==
    [i \in 1..Len(output) |->
        LET p == (i - 1) \div 4
            c == (i - 1) % 4
            x == p % width
            y == p \div width
            idx == Idx(x, y, width)
        IN IF Returns(x, y, width, height) THEN output[i]
           ELSE IF c < 3 THEN Sharpened(input, idx, width * 4, c, amount)
           ELSE At(input, idx + 3)]

\* Images whose bytes follow a pattern, and output buffers filled with one byte.
Pattern(n, step, from) == [i \in 1..n |-> (from + step * (i - 1)) % 256]
Filled(n, b) == [i \in 1..n |-> b]

SharpenCalls ==
    {[width |-> w, height |-> h, amount |-> a,
      input |-> Pattern(w * h * 4, step, from), output |-> Filled(w * h * 4, b)] :
        w \in 1..MaxDim, h \in 1..MaxDim, a \in {0, 1},
        step \in {1, 37}, from \in {0, 200}, b \in {0, 255}}

\* applySharpen(input, output, width, height, amount).
applySharpen ==
    /\ ~applied
    /\ applied' = TRUE
    /\ res' = sharpenKernel(arg.input, arg.output, arg.width, arg.height, arg.amount)
    /\ UNCHANGED <<tilerVars, clientVars, fcmd, fdata, fbytes, fdec, arg, authVars>>

InitSharpen ==
    /\ InitCache({MaxCap})
    /\ InitProc
    /\ InitFrame({CMD_CONNECT}, {<<>>})
    /\ InitFunc(SharpenCalls)

NextSharpen == applySharpen

SpecSharpen == InitSharpen /\ [][NextSharpen]_vars

\* The pixels of the image of a call, and those on its border.
PixelsOf(call) == (0..(call.width - 1)) \X (0..(call.height - 1))
OnBorder(call, p) ==
    p[1] = 0 \/ p[1] = call.width - 1 \/ p[2] = 0 \/ p[2] = call.height - 1

\* C33: after sharpen every border pixel of the output equals the input pixel,
\* and every pixel's output alpha equals its input alpha, whatever the output
\* buffer held before.
C33_BorderAndAlpha ==
    applied =>
        \A p \in PixelsOf(arg) :
            LET idx == Idx(p[1], p[2], arg.width)
            IN /\ At(res, idx + 3) = At(arg.input, idx + 3)
               /\ OnBorder(arg, p) =>
                    \A c \in 0..2 : At(res, idx + c) = At(arg.input, idx + c)

\* What the kernel does keep: an inner pixel's alpha is the input's, and a
\* border pixel of the output is what the buffer held before the call.
InnerAlphaAndBorderKept ==
    applied =>
        \A p \in PixelsOf(arg) :
            LET idx == Idx(p[1], p[2], arg.width)
            IN IF OnBorder(arg, p)
               THEN \A c \in 0..3 : At(res, idx + c) = At(arg.output, idx + c)
               ELSE At(res, idx + 3) = At(arg.input, idx + 3)

\* ------------------------------------------------------------------ content types

\* The content type that goes with a requested format.
TypeOfFormat(format) == IF format = "jpeg" THEN "image/jpeg" ELSE "image/webp"
TypeMatches(c) == structs[resp[c]].ContentType = TypeOfFormat(treq[c].Format)

\* C34: the response of every ProcessTile call has the content type of the
\* format that call asked for, also when the tile was cached by an earlier
\* call that asked for another format.
C34_TypeAsRequested ==
    \A c \in Direct : pc[c] = "done" => TypeMatches(c)

\* The part of C34 that holds: a response that was encoded for this call has
\* the content type of its format.
EncodedTypeAsRequested ==
    \A c \in Direct : pc[c] \in {"store", "release"} => TypeMatches(c)

\* ------------------------------------------------------------------ long batches

\* Longest batch whose channels and wait group are followed; the workers are 4.
MaxLong == 5

LongBatches ==
    {[i \in 1..n |-> [key |-> "A", Format |-> "webp", Quality |-> DefaultQuality]] :
        n \in 0..MaxLong}

\* A worker, line 234, as ProcessBatch sees it: ProcessTile returns a response
\* or an error.  What the call does to the cache has no part in the channels
\* and the wait group and is left out.
ProcessTileReturns(w) ==
    /\ wst[w] = "busy"
    /\ pc[w] = "lookup"
    /\ \/ LET key == cacheKeyOf(treq[w])
              nr  == newResponse(structs, slices, DOMAIN structs, <<0>>,
                                 contentTypeOf(treq[w].Format), key)
          IN /\ pc' = [pc EXCEPT ![w] = "done"]
             /\ resp' = [resp EXCEPT ![w] = nr[3]]
             /\ structs' = nr[1]
             /\ slices' = nr[2]
             /\ UNCHANGED perr
       \/ /\ pc' = [pc EXCEPT ![w] = "failed"]
          /\ perr' = [perr EXCEPT ![w] = "load"]
          /\ UNCHANGED <<structs, slices, resp>>
    /\ last' = Step
    /\ UNCHANGED <<cacheVars, held, fromGet, used, treq, buf, poolIdle>>
    /\ UNCHANGED <<batchVars, scanVars>>

NextFlow ==
    \/ \E reqs \in LongBatches : PB_Begin(reqs)
    \/ PB_Send
    \/ PB_Close
    \/ \E w \in Workers : W_Receive(w)
    \/ \E w \in Workers : ProcessTileReturns(w)
    \/ \E w \in Workers : W_Result(w)
    \/ \E w \in Workers : W_Error(w)
    \/ PB_Return
    \/ PB_Done

\* The Go scheduler runs a goroutine that can run: some step is taken as long
\* as one can be.
SpecFlow == InitBatch /\ [][NextFlow]_vars /\ WF_vars(NextFlow)

\* C35: every ProcessBatch call returns, whatever the length of the batch and
\* whichever of its items fail: neither the send loop, nor a worker at either
\* channel, nor wg.Wait waits forever.
C35_BatchTerminates == (bpc = "sending") ~> (bpc = "returned")

\* A batch longer than the workers are many has returned after all four
\* workers failed, with an item still queued.
C35_Witness ==
    /\ bpc = "returned"
    /\ Len(requests) = MaxLong
    /\ Len(errChan) = Cardinality(Workers)
    /\ requestChan # <<>>

\* ------------------------------------------------------------------ concurrent misses

\* The positions of key in a list of entries.
PositionsOf(l, key) == {i \in 1..Len(l) : l[i].key = key}

\* The step in which call c stores its response leaves one entry under its
\* key, holding that response with the length of its bytes as size, and the
\* resident bytes equal to the sum of the entries' sizes; when the key was
\* resident already, no entry is added.
StoresOnce(c) ==
    LET key == cacheKeyOf(treq[c])
    IN /\ Cardinality(PositionsOf(lru', key)) = 1
       /\ lru'[1] = [key |-> key, value |-> resp[c],
                     size |-> Len(slices[structs[resp[c]].Data])]
       /\ currentSize' = SizeOfKeys(lru', items')
       /\ key \in items => items' = items /\ Len(lru') = Len(lru)

\* C36: when concurrent ProcessTile calls for one tile all miss, each stores
\* its result, and after every such store the cache holds exactly one entry
\* for the key, sized as the value stored last, with no byte counted twice.
C36_ConcurrentMisses == [][\A c \in Callers : IsStore(c) => StoresOnce(c)]_vars

\* Both callers missed on the same tile and both have stored: the second
\* store found the key resident.
C36_Witness ==
    /\ misses = 2 /\ hits = 0
    /\ treq["d1"].key = treq["d2"].key
    /\ \A c \in Direct : pc[c] \in {"release", "done"} /\ perr[c] = "none"
    /\ last.op = "Set" /\ last.hit
    /\ Len(lru) = 1

\* ------------------------------------------------------------------ frame boundaries

\* The step is a Read of a length prefix or of a layer header that brought
\* bytes; TakenNow are the bytes it took off the connection.
ReadsFrameStart ==
    /\ Len(rx') < Len(rx) /\ link' = link
    /\ qpc = "length" \/ stpc = "length" \/ scanpc = "header"
TakenNow == SubSeq(rx, 1, Len(rx) - Len(rx'))

\* The scan before was cancelled or failed part-way through the device's
\* answer, and its caller still has the error in hand.
ScanAborted == scanpc = "done" /\ sret.err \in {"cancelled", "read"}

\* C37: after a scan that was cancelled or failed part-way, the next exchange
\* never reads its length prefix or header from bytes the device sent in
\* answer to the aborted one.
C37_FrameBoundaries ==
    [][ScanAborted /\ ReadsFrameStart =>
         ~Foreign(TakenNow, IF scanpc = "header" THEN sex ELSE rex)]_vars

\* ------------------------------------------------------------------ writes when not connected

\* The step calls conn.Write.
Writes == nwrites' # nwrites

\* C38: once the connection has been released by Close, no operation calls
\* Write on it: each returns an error without sending its command.
C38_NoWriteWhenClosed == [][conn = "closed" => ~Writes]_vars

\* The part of C38 that holds: StartScan on a client that is not connected
\* returns its error without a Write.
ScanRefusesUnconnected ==
    [][~connected /\ scans' # scans => ~Writes /\ sret'.err = "not connected"]_vars

\* ------------------------------------------------------------------ device memory

\* Most ProcessTile calls in a row.
MaxTiles == 2

\* How a ProcessTile call ends: a cache hit, the first step that fails, or ok.
Outcomes == {"hit", "ok", "copyFromGPU", "encode"} \cup ComputeFailures

Malloc(ptr) == [call |-> "cudaMalloc", ptr |-> ptr]
Free(ptr)   == [call |-> "cudaFree", ptr |-> ptr]

\* The deferred calls run at return, the last deferred first.
RECURSIVE RunDeferred(_)
RunDeferred(defers) ==
    IF defers = <<>> THEN <<>>
    ELSE <<defers[Len(defers)]>> \o RunDeferred(SubSeq(defers, 1, Len(defers) - 1))

\* ProcessTile, lines 100-123 and its returns: the successful cudaMalloc calls
\* and the cudaFree calls it makes, in order, when it ends as how.
DeviceCalls(how) ==
    IF how \in {"hit", "load", "mallocIn"} THEN <<>>
    ELSE LET in == <<Malloc("dInput")>>
             d1 == <<Free("dInput")>>
         IN IF how = "mallocOut"
            THEN in \o <<Free("dInput")>> \o RunDeferred(d1)
            ELSE LET out == in \o <<Malloc("dOutput")>>
                     d2  == d1 \o <<Free("dOutput")>>
                 IN out \o RunDeferred(d2)

\* ProcessTile is called once for each outcome of arg; res is what each call
\* did to the device memory.
ProcessTiles ==
    /\ ~applied
    /\ applied' = TRUE
    /\ res' = [i \in 1..Len(arg) |-> DeviceCalls(arg[i])]
    /\ UNCHANGED <<tilerVars, clientVars, fcmd, fdata, fbytes, fdec, arg, authVars>>

InitDevice ==
    /\ InitCache({MaxCap})
    /\ InitProc
    /\ InitFrame({CMD_CONNECT}, {<<>>})
    /\ InitFunc(SeqsUpTo(Outcomes, MaxTiles) \ {<<>>})

NextDevice == ProcessTiles

SpecDevice == InitDevice /\ [][NextDevice]_vars

\* How many times a call sequence frees ptr, and whether it allocates it.
Frees(calls, ptr) == Cardinality({j \in 1..Len(calls) : calls[j] = Free(ptr)})
Allocates(calls, ptr) == \E j \in 1..Len(calls) : calls[j] = Malloc(ptr)

\* C39: every device allocation a ProcessTile call made is freed exactly once
\* by the time the call returns, whichever way it returns.
C39_FreedOnce ==
    applied =>
        \A i \in 1..Len(res) : \A ptr \in {"dInput", "dOutput"} :
            Frees(res[i], ptr) = IF Allocates(res[i], ptr) THEN 1 ELSE 0

\* The part of C39 that holds: no allocation is leaked, nothing is freed that
\* was not allocated, and only a failed output allocation frees twice.
NoLeak ==
    applied =>
        \A i \in 1..Len(res) : \A ptr \in {"dInput", "dOutput"} :
            /\ Allocates(res[i], ptr) => Frees(res[i], ptr) >= 1
            /\ ~Allocates(res[i], ptr) => Frees(res[i], ptr) = 0
            /\ arg[i] # "mallocOut" => Frees(res[i], ptr) <= 1

\* ------------------------------------------------------------------ sessions

\* The latest time, the time a token lives (config.TokenExpiry), and the most
\* protected requests.
MaxTime == 2
TokenExpiry == 1
MaxRequests == 2

Users == {"u1", "u2"}

\* generateToken: the signed string is a function of the claims (the user and
\* the time of issue) and of the secret, which is fixed.
Token(username, issuedAt) == [Username |-> username, IssuedAt |-> issuedAt]
Tokens == [Username : Users, IssuedAt : 0..MaxTime]

\* What a step of the session handling leaves alone.
AuthOnly ==
    UNCHANGED <<tilerVars, clientVars, fcmd, fdata, fbytes, fdec, arg, res, applied>>

\* handleLogin with credentials that are accepted: Authenticate makes the
\* token and stores the session under it.
handleLogin(username) ==
    LET token == Token(username, now)
        session == [Username |-> username, ExpiresAt |-> now + TokenExpiry]
    IN /\ activeSessions' =
            [t \in DOMAIN activeSessions \cup {token} |->
                IF t = token THEN session ELSE activeSessions[t]]
       /\ loggedOut' = loggedOut \ {token}
       /\ UNCHANGED <<now, nreq, authRet>>
       /\ AuthOnly

\* handleLogout, lines 283-293, for a request that carries token: the cookie
\* is cleared in the answer, and that is all.
handleLogout(token) ==
    /\ token \notin loggedOut
    /\ loggedOut' = loggedOut \cup {token}
    /\ UNCHANGED <<activeSessions, now, nreq, authRet>>
    /\ AuthOnly

\* ValidateToken, lines 67-96: the session is looked up, an expired one is
\* dropped, and the token's own expiry claim is verified with its signature.
SessionExpired(token) == now > activeSessions[token].ExpiresAt
ValidateToken(token) ==
    /\ token \in DOMAIN activeSessions
    /\ ~SessionExpired(token)
    /\ now < token.IssuedAt + TokenExpiry

\* authMiddleware, lines 295-310, for a request whose cookie is token.
authMiddleware(token) ==
    /\ nreq < MaxRequests
    /\ nreq' = nreq + 1
    /\ authRet' = [token |-> token, ok |-> ValidateToken(token)]
    /\ activeSessions' =
         IF token \in DOMAIN activeSessions /\ SessionExpired(token)
         THEN [t \in DOMAIN activeSessions \ {token} |-> activeSessions[t]]
         ELSE activeSessions
    /\ UNCHANGED <<now, loggedOut>>
    /\ AuthOnly

\* Time passes.
Tick ==
    /\ now < MaxTime
    /\ now' = now + 1
    /\ UNCHANGED <<activeSessions, loggedOut, nreq, authRet>>
    /\ AuthOnly

InitSessions ==
    /\ InitCache({MaxCap})
    /\ InitProc
    /\ InitFrame({CMD_CONNECT}, {<<>>})
    /\ InitFunc({<<>>})

NextSessions ==
    \/ \E u \in Users : handleLogin(u)
    \/ \E t \in Tokens : handleLogout(t)
    \/ \E t \in Tokens : authMiddleware(t)
    \/ Tick

SpecSessions == InitSessions /\ [][NextSessions]_vars

\* The step is a protected request that the middleware lets through.
Accepted == nreq' # nreq /\ authRet'.ok

\* C40: the middleware lets a request through only if its token was issued
\* by Authenticate, has not expired, and no logout request has been made with
\* it since.
C40_LogoutInvalidates ==
    [][Accepted => /\ authRet'.token \in DOMAIN activeSessions
                   /\ now <= activeSessions[authRet'.token].ExpiresAt
                   /\ authRet'.token \notin loggedOut]_vars

\* The part of C40 that holds: a token is accepted only between its issue and
\* its expiry.
AcceptedOnlyLive ==
    [][Accepted => /\ authRet'.token \in DOMAIN activeSessions
                   /\ authRet'.token.IssuedAt <= now
                   /\ now < authRet'.token.IssuedAt + TokenExpiry]_vars

====
